---- MODULE Spec2Model ----
(***************************************************************************)
(* SwarmWorld (src/simulation/swarm.py): the command queue, the per-drone  *)
(* mode state machine and the step() loop driven by simulation_loop        *)
(* (src/simulation/main.py), with the producer threads that enqueue        *)
(* commands and a reader thread that calls get_state().                    *)
(*                                                                         *)
(* Units: lengths in centimetres, speeds in cm/s, angles in milliradians,  *)
(* simulated time in physics ticks (one tick = physics_dt), battery in     *)
(* 1/120 percent (so that the drain of 0.5 %/min is 1 unit per second).    *)
(***************************************************************************)
EXTENDS Integers, Sequences, FiniteSets, TLC

\* ------------------------------------------------------------------ bounds
\* Largest fleet a constructor call or a spawn command asks for.
MaxDrones == 2
\* Commands enqueued in one behaviour.
MaxCmds == 2
\* step() calls in one behaviour.
MaxSteps == 3
\* get_state() calls in one behaviour.
MaxReads == 1
\* Producer threads (network handlers).
NumProducers == 2

\* The physics_hz and control_hz the world is constructed with (240 and 60 by
\* default): the battery drains every PhysicsHz steps and the control update
\* runs once simulated time has advanced by a control period.
PhysicsHz == 2
ControlHz == 1

\* ------------------------------------------------------- program constants
BatteryFull == 12000
DrainPerSecond == 1
BoundXY == 1000
BoundZMin == 10
BoundZMax == 500
MaxVel == 200
Pi == 3142
LandZ == 5
LandedBelow == 15
ArriveWithin == 10
GridSpacing == 50
SpawnZ == 10
DefaultAltitude == 100
DefaultSpawn == 5
HealthXY == 1500
HealthZMax == 1000
Kp == 2
KiMilli == 10
KdMilli == 500
YawKp == 2
YawKiMilli == 0
YawKdMilli == 300
SpeedDeadband == 1
SpeedScale == 200

Producers == 1..NumProducers

\* ----------------------------------------------------------------- helpers
\* A Python dict is a function whose DOMAIN is its key set.
EmptyDict == <<>>

Put(d, k, v) == [i \in (DOMAIN d) \cup {k} |-> IF i = k THEN v ELSE d[i]]

Get(d, k, default) == IF k \in DOMAIN d THEN d[k] ELSE default

\* list(range(n))
Range(n) == [i \in 1..n |-> i - 1]

Clip(v, lo, hi) == IF v < lo THEN lo ELSE IF v > hi THEN hi ELSE v

Abs(v) == IF v < 0 THEN -v ELSE v

CeilSqrt(n) == CHOOSE k \in 0..n : k * k >= n /\ (k = 0 \/ (k - 1) * (k - 1) < n)

\* The whole part of the square root, by bisection of lo..hi.
RECURSIVE SqrtBetween(_, _, _)
SqrtBetween(n, lo, hi) ==
    IF lo >= hi THEN lo
    ELSE LET mid == (lo + hi + 1) \div 2
         IN  IF mid * mid <= n THEN SqrtBetween(n, mid, hi) ELSE SqrtBetween(n, lo, mid - 1)

\* A power of two whose square exceeds n.
RECURSIVE SqrtAbove(_, _)
SqrtAbove(n, k) == IF k * k > n THEN k ELSE SqrtAbove(n, 2 * k)

FloorSqrt(n) == SqrtBetween(n, 0, SqrtAbove(n, 1))

Min(a, b) == IF a < b THEN a ELSE b

Zero3 == <<0, 0, 0>>

\* The square of np.linalg.norm(a - b).
Dist2(a, b) ==
    (a[1] - b[1]) * (a[1] - b[1]) + (a[2] - b[2]) * (a[2] - b[2])
        + (a[3] - b[3]) * (a[3] - b[3])

\* Division that rounds toward zero.
TruncDiv(a, b) == IF a >= 0 THEN a \div b ELSE -((-a) \div b)

\* The square root rounded up to a whole unit.
RootUp(n) == LET f == FloorSqrt(n) IN IF f * f = n THEN f ELSE f + 1

\* The position as given, without bounds.
NoClamp(pos) == pos

clamp_position(pos) ==
    << Clip(pos[1], -BoundXY, BoundXY),
       Clip(pos[2], -BoundXY, BoundXY),
       Clip(pos[3], BoundZMin, BoundZMax) >>

\* A limit on each axis by itself.
ClampEachAxis(vel) ==
    << Clip(vel[1], -MaxVel, MaxVel), Clip(vel[2], -MaxVel, MaxVel),
       Clip(vel[3], -MaxVel, MaxVel) >>

\* vel * (max_vel / magnitude) when the magnitude exceeds max_vel, each
\* component rounded toward zero to a whole unit.
clamp_velocity(vel) ==
    LET m2 == Dist2(vel, Zero3)
        m  == RootUp(m2)
    IN  IF m2 > MaxVel * MaxVel
        THEN << TruncDiv(vel[1] * MaxVel, m), TruncDiv(vel[2] * MaxVel, m),
                TruncDiv(vel[3] * MaxVel, m) >>
        ELSE vel

\* ---------------------------------------------------- the physics collaborator
\* _init_environment: drone i starts on a grid, just above the ground.
InitialXYZ(n) ==
    LET g == CeilSqrt(n)
    IN  [i \in 0..(n - 1) |->
            << ((i % g) * 2 - g) * (GridSpacing \div 2),
               ((i \div g) * 2 - g) * (GridSpacing \div 2),
               SpawnZ >>]

\* The kinematics env.step may leave a drone with, as <<x drift, altitude>>
\* relative to the drone's grid place: on the ground, aloft above its place,
\* aloft and drifted sideways.
Kinematics == << <<0, 10>>, <<0, 96>>, <<20, 96>> >>

PhysicsPositions(n, choice) ==
    LET home == InitialXYZ(n)
    IN  [i \in 0..(n - 1) |->
            << home[i][1] + Kinematics[choice[i]][1], home[i][2], Kinematics[choice[i]][2] >>]

\* The positions a physics step may produce for a fleet of n: any of the
\* kinematics for each drone.
AnyMotion(n) == {PhysicsPositions(n, choice) : choice \in [0..(n - 1) -> 1..Len(Kinematics)]}

\* Places a drone may be after a long flight, bounds of the health check
\* included: inside, on the x and z limits, beyond x, beyond y, under the
\* ground, above the ceiling.
StrayPlaces ==
    { <<0, 0, 96>>, <<HealthXY, 0, HealthZMax>>, <<HealthXY + 1, 0, 96>>,
      <<0, -HealthXY - 1, 96>>, <<0, 0, -1>>, <<0, 0, HealthZMax + 1>> }

\* The positions a physics step may produce for a fleet of n that strays.
StrayMotion(n) == [0..(n - 1) -> StrayPlaces]

\* env._getDroneStateVector(nth) indexes the environment's arrays: an index
\* outside -n..n-1 raises IndexError, a negative one counts from the end.
IndexOk(envp, nth) ==
    LET n == Cardinality(DOMAIN envp) IN nth >= -n /\ nth < n

_get_position(envp, nth) ==
    LET n == Cardinality(DOMAIN envp) IN IF nth < 0 THEN envp[n + nth] ELSE envp[nth]

\* The yaw the environment reports; attitude dynamics are not part of the model.
_get_yaw(envp, nth) == 0

\* ------------------------------------------------------------ controllers
\* PIDController.__init__ and reset: integral2 is the integral in units of
\* half an error-unit per control tick (integral = integral2 / (2 * control_hz)).
PIDController == [integral2 |-> 0, prev_error |-> 0]

\* An update that returns p + i + d as it is, whatever the limits.
UpdateUnclamped(pid, error, dt, kp, ki_milli, kd_milli, lo, hi) ==
    LET integral2 == pid.integral2 + 2 * error * dt
        den == IF dt > 0 THEN 2000 * ControlHz * dt ELSE 2000 * ControlHz
        num == IF dt > 0
               THEN dt * (2000 * ControlHz * kp * error + ki_milli * integral2)
                    + 2 * ControlHz * ControlHz * kd_milli * (error - pid.prev_error)
               ELSE 2000 * ControlHz * kp * error + ki_milli * integral2
    IN  [pid |-> [integral2 |-> integral2, prev_error |-> error],
         output |-> num \div den]

\* An update whose integral keeps the whole increment also when the output
\* was clamped.
UpdateKeepsIntegral(pid, error, dt, kp, ki_milli, kd_milli, lo, hi) ==
    LET integral2 == pid.integral2 + 2 * error * dt
        den == IF dt > 0 THEN 2000 * ControlHz * dt ELSE 2000 * ControlHz
        num == IF dt > 0
               THEN dt * (2000 * ControlHz * kp * error + ki_milli * integral2)
                    + 2 * ControlHz * ControlHz * kd_milli * (error - pid.prev_error)
               ELSE 2000 * ControlHz * kp * error + ki_milli * integral2
        output == IF num > hi * den THEN hi ELSE IF num < lo * den THEN lo ELSE num \div den
    IN  [pid |-> [integral2 |-> integral2, prev_error |-> error],
         output |-> output]

\* PIDController.update(error, dt), with dt in control periods (dt / control_hz
\* seconds) and the gains ki, kd in thousandths. The integral grows by
\* error * dt; the derivative is (error - prev_error) / dt, or 0 when dt <= 0;
\* the output p + i + d is num / den. It is clamped to the limits, and when the
\* clamp changed it the integral gives back half of what this update added.
\* Within the limits the output is rounded down to a whole unit.
update(pid, error, dt, kp, ki_milli, kd_milli, lo, hi) ==
    LET integral2 == pid.integral2 + 2 * error * dt
        den == IF dt > 0 THEN 2000 * ControlHz * dt ELSE 2000 * ControlHz
        num == IF dt > 0
               THEN dt * (2000 * ControlHz * kp * error + ki_milli * integral2)
                    + 2 * ControlHz * ControlHz * kd_milli * (error - pid.prev_error)
               ELSE 2000 * ControlHz * kp * error + ki_milli * integral2
        saturated == num > hi * den \/ num < lo * den
        output == IF num > hi * den THEN hi ELSE IF num < lo * den THEN lo ELSE num \div den
    IN  [pid |-> [integral2 |-> IF saturated THEN integral2 - error * dt ELSE integral2,
                  prev_error |-> error],
         output |-> output]

\* pid.update(error, dt) as compute_control calls it, with dt = control_dt.
PIDUpdate(pid, error, kp, ki_milli, kd_milli, lo, hi) ==
    update(pid, error, 1, kp, ki_milli, kd_milli, lo, hi)

\* PositionController.__init__: four PID controllers.
PositionController ==
    [pid_x |-> PIDController, pid_y |-> PIDController, pid_z |-> PIDController,
     pid_yaw |-> PIDController]

\* PositionController.reset
PositionControllerReset(ctrl) ==
    [pid_x |-> PIDController, pid_y |-> PIDController, pid_z |-> PIDController,
     pid_yaw |-> PIDController]

\* np.arctan2(np.sin(e), np.cos(e)): the angle brought into (-pi, pi].
WrapPi(e) ==
    LET m == (e + Pi) % (2 * Pi)
    IN  IF m = 0 /\ e > 0 THEN Pi ELSE m - Pi

\* PositionController.compute_control: the new controller state, the velocity
\* command and the yaw-rate command.
compute_control(ctrl, current_pos, target_pos, current_yaw, target_yaw) ==
    LET ux == PIDUpdate(ctrl.pid_x, target_pos[1] - current_pos[1], Kp, KiMilli, KdMilli, -MaxVel, MaxVel)
        uy == PIDUpdate(ctrl.pid_y, target_pos[2] - current_pos[2], Kp, KiMilli, KdMilli, -MaxVel, MaxVel)
        uz == PIDUpdate(ctrl.pid_z, target_pos[3] - current_pos[3], Kp, KiMilli, KdMilli, -MaxVel, MaxVel)
        uw == PIDUpdate(ctrl.pid_yaw, WrapPi(target_yaw - current_yaw), YawKp, YawKiMilli, YawKdMilli, -Pi, Pi)
    IN  [ctrl |-> [pid_x |-> ux.pid, pid_y |-> uy.pid, pid_z |-> uz.pid, pid_yaw |-> uw.pid],
         vel |-> << ux.output, uy.output, uz.output >>,
         yaw_rate |-> uw.output]

\* ------------------------------------------------------------------- state
VARIABLES
    num_drones,            \* self.num_drones
    command_queue,         \* self.command_queue, head first
    drone_modes,           \* self.drone_modes
    target_positions,      \* self.target_positions
    target_yaws,           \* self.target_yaws
    target_velocities,     \* self.target_velocities
    target_yaw_rates,      \* self.target_yaw_rates
    hover_positions,       \* self.hover_positions
    position_controllers,  \* self.position_controllers: the PID state of each axis
    batteries,             \* self.batteries
    health_status,         \* self.health_status
    sim_time,              \* self.sim_time, in physics ticks
    last_control_time,     \* self.last_control_time, in physics ticks
    step_count,            \* self.step_count
    env_pos,               \* the environment's drone positions
    actions,               \* the action array of the latest env.step call
    pc,                    \* the control thread: idle, drain, respawn, control, dead, stopped
    respawn_num,           \* _respawn's argument while it runs
    gs_pc,                 \* the reader thread inside get_state: idle, read, done, failed
    gs_n,                  \* get_state: the range it iterates
    gs_i,                  \* get_state: the loop index
    gs_states,             \* get_state: the list built so far
    gs_timestamp,          \* get_state: the timestamp of the returned dict
    enq_count,             \* history: commands enqueued
    disp_count,            \* history: commands taken off the queue
    prod_enq,              \* history: commands enqueued by each producer
    drain_mark,            \* history: enq_count when the latest drain began
    drained,               \* history: commands dispatched by the latest drain
    last_raised,           \* history: the latest dispatch raised
    steps_begun,           \* history: step() calls begun
    steps_done,            \* history: step() calls returned
    prev_health,           \* history: health_status when the latest step() ran its health check
    step_report,           \* history: what env.step returned to the latest step()
    reads_begun,           \* history: get_state() calls begun
    call                   \* the latest direct call of a controllers.py function

world == << num_drones, drone_modes, target_positions, target_yaws, target_velocities,
            target_yaw_rates, hover_positions, position_controllers, batteries,
            health_status, sim_time, last_control_time, step_count, env_pos, actions >>

reader == << gs_pc, gs_n, gs_i, gs_states, gs_timestamp, reads_begun >>

history == << enq_count, disp_count, prod_enq, drain_mark, drained, last_raised,
              steps_begun, steps_done, prev_health, step_report >>

vars == << world, command_queue, pc, respawn_num, reader, history, call >>

\* The fields of self that commands and step() read and write, as one record.
Self ==
    [ num_drones |-> num_drones, drone_modes |-> drone_modes,
      target_positions |-> target_positions, target_yaws |-> target_yaws,
      target_velocities |-> target_velocities, target_yaw_rates |-> target_yaw_rates,
      hover_positions |-> hover_positions, position_controllers |-> position_controllers,
      batteries |-> batteries, health_status |-> health_status, sim_time |-> sim_time,
      last_control_time |-> last_control_time, step_count |-> step_count,
      env_pos |-> env_pos, actions |-> actions, raised |-> FALSE, respawning |-> FALSE ]

Store(w) ==
    /\ num_drones' = w.num_drones
    /\ drone_modes' = w.drone_modes
    /\ target_positions' = w.target_positions
    /\ target_yaws' = w.target_yaws
    /\ target_velocities' = w.target_velocities
    /\ target_yaw_rates' = w.target_yaw_rates
    /\ hover_positions' = w.hover_positions
    /\ position_controllers' = w.position_controllers
    /\ batteries' = w.batteries
    /\ health_status' = w.health_status
    /\ sim_time' = w.sim_time
    /\ last_control_time' = w.last_control_time
    /\ step_count' = w.step_count
    /\ env_pos' = w.env_pos
    /\ actions' = w.actions

\* No function of controllers.py has been called directly.
NoCall == [fn |-> "none"]

\* No step() has called env.step yet.
NoReport == [kind |-> "none", terminated |-> FALSE, truncated |-> FALSE]

\* SwarmWorld.__init__
Init ==
    /\ num_drones \in 1..MaxDrones
    /\ command_queue = <<>>
    /\ drone_modes = [i \in 0..(num_drones - 1) |-> "idle"]
    /\ target_positions = EmptyDict
    /\ target_yaws = EmptyDict
    /\ target_velocities = EmptyDict
    /\ target_yaw_rates = EmptyDict
    /\ hover_positions = EmptyDict
    /\ position_controllers = [i \in 0..(num_drones - 1) |-> PositionController]
    /\ batteries = [i \in 0..(num_drones - 1) |-> BatteryFull]
    /\ health_status = [i \in 0..(num_drones - 1) |-> TRUE]
    /\ sim_time = 0
    /\ last_control_time = 0
    /\ step_count = 0
    /\ env_pos = InitialXYZ(num_drones)
    /\ actions = EmptyDict
    /\ pc = "idle"
    /\ respawn_num = 0
    /\ gs_pc = "idle"
    /\ gs_n = 0
    /\ gs_i = 0
    /\ gs_states = <<>>
    /\ gs_timestamp = 0
    /\ enq_count = 0
    /\ disp_count = 0
    /\ prod_enq = [p \in Producers |-> 0]
    /\ drain_mark = 0
    /\ drained = <<>>
    /\ last_raised = FALSE
    /\ steps_begun = 0
    /\ steps_done = 0
    /\ prev_health = health_status
    /\ step_report = NoReport
    /\ reads_begun = 0
    /\ call = NoCall

\* ---------------------------------------------------------------- commands
\* DroneCommand(cmd_type, drone_ids, params). drone_ids is the string "all"
\* (all = TRUE) or a list of integers; params is the dict the handlers read.
DroneCommand(cmd_type, all, drone_ids, params) ==
    [cmd_type |-> cmd_type, all |-> all, drone_ids |-> drone_ids, params |-> params]

\* The commands the network handlers build (src/simulation/main.py): the REST
\* handlers check an explicit id only against num_drones at the time of the
\* request, and handle_websocket_command passes ids and params on unchecked.
Commands ==
    << DroneCommand("takeoff", TRUE, <<>>, [altitude |-> 100]),
       DroneCommand("takeoff", FALSE, <<0, 1>>, [altitude |-> 100]),
       DroneCommand("land", TRUE, <<>>, [none |-> 0]),
       DroneCommand("land", FALSE, <<1>>, [none |-> 0]),
       DroneCommand("hover", FALSE, <<0>>, [none |-> 0]),
       DroneCommand("goto", FALSE, <<0>>, [id |-> 0, x |-> 10000, y |-> 0, z |-> 100, yaw |-> 0]),
       DroneCommand("goto", FALSE, <<MaxDrones>>,
                    [id |-> MaxDrones, x |-> 0, y |-> 0, z |-> 100, yaw |-> 0]),
       DroneCommand("goto", FALSE, <<0>>, [id |-> 0, y |-> 0, z |-> 100]),
       DroneCommand("velocity", FALSE, <<0>>,
                    [id |-> 0, vx |-> 300, vy |-> 400, vz |-> 0, yaw_rate |-> 4000]),
       DroneCommand("formation", TRUE, <<>>,
                    [pattern |-> "line", center |-> <<0, 0, 150>>, spacing |-> 100, axis |-> "x"]),
       DroneCommand("formation", TRUE, <<>>,
                    [pattern |-> "line", center |-> <<0, 0, 150>>, spacing |-> 100, axis |-> "z"]),
       DroneCommand("formation", TRUE, <<>>,
                    [pattern |-> "spiral", center |-> <<0, 0, 150>>]),
       DroneCommand("reset", TRUE, <<>>, [none |-> 0]),
       DroneCommand("spawn", TRUE, <<>>, [num |-> 1]),
       DroneCommand("spawn", TRUE, <<>>, [num |-> MaxDrones]),
       DroneCommand("emergency_stop", TRUE, <<>>, [none |-> 0]) >>

Raise(w) == [w EXCEPT !.raised = TRUE]

_takeoff_drone(w, drone_id, altitude) ==
    IF ~IndexOk(w.env_pos, drone_id) THEN Raise(w)
    ELSE LET current_pos == _get_position(w.env_pos, drone_id)
             target_pos  == << current_pos[1], current_pos[2], altitude >>
         IN  [w EXCEPT !.target_positions = Put(@, drone_id, clamp_position(target_pos)),
                       !.target_yaws = Put(@, drone_id, 0),
                       !.drone_modes = Put(@, drone_id, "takeoff")]

\* A landing that does not override a takeoff in progress.
LandUnlessTakingOff(w, drone_id) ==
    IF ~IndexOk(w.env_pos, drone_id) THEN Raise(w)
    ELSE IF Get(w.drone_modes, drone_id, "idle") = "takeoff" THEN w
    ELSE LET current_pos == _get_position(w.env_pos, drone_id)
             target_pos  == << current_pos[1], current_pos[2], LandZ >>
         IN  [w EXCEPT !.target_positions = Put(@, drone_id, target_pos),
                       !.target_yaws = Put(@, drone_id, 0),
                       !.drone_modes = Put(@, drone_id, "landing")]

\* A landing whose target goes through the position clamp.
LandClamped(w, drone_id) ==
    IF ~IndexOk(w.env_pos, drone_id) THEN Raise(w)
    ELSE LET current_pos == _get_position(w.env_pos, drone_id)
             target_pos  == << current_pos[1], current_pos[2], LandZ >>
         IN  [w EXCEPT !.target_positions = Put(@, drone_id, clamp_position(target_pos)),
                       !.target_yaws = Put(@, drone_id, 0),
                       !.drone_modes = Put(@, drone_id, "landing")]

_land_drone(w, drone_id) ==
    IF ~IndexOk(w.env_pos, drone_id) THEN Raise(w)
    ELSE LET current_pos == _get_position(w.env_pos, drone_id)
             target_pos  == << current_pos[1], current_pos[2], LandZ >>
         IN  [w EXCEPT !.target_positions = Put(@, drone_id, target_pos),
                       !.target_yaws = Put(@, drone_id, 0),
                       !.drone_modes = Put(@, drone_id, "landing")]

_hover_drone(w, drone_id) ==
    IF ~IndexOk(w.env_pos, drone_id) THEN Raise(w)
    ELSE LET current_pos == _get_position(w.env_pos, drone_id)
             current_yaw == _get_yaw(w.env_pos, drone_id)
         IN  [w EXCEPT !.hover_positions = Put(@, drone_id, current_pos),
                       !.target_positions = Put(@, drone_id, current_pos),
                       !.target_yaws = Put(@, drone_id, current_yaw),
                       !.drone_modes = Put(@, drone_id, "hover")]

_goto_position(w, drone_id, target, yaw) ==
    [w EXCEPT !.target_positions = Put(@, drone_id, clamp_position(target)),
              !.target_yaws = Put(@, drone_id, yaw),
              !.drone_modes = Put(@, drone_id, "goto")]

_set_velocity(w, drone_id, velocity, yaw_rate) ==
    [w EXCEPT !.target_velocities = Put(@, drone_id, clamp_velocity(velocity)),
              !.target_yaw_rates = Put(@, drone_id, Clip(yaw_rate, -Pi, Pi)),
              !.drone_modes = Put(@, drone_id, "velocity")]

\* for drone_id in drone_ids: handler(drone_id); an exception ends the loop.
RECURSIVE ForEachDrone(_, _, _, _)
ForEachDrone(w, cmd_type, drone_ids, altitude) ==
    IF drone_ids = <<>> \/ w.raised THEN w
    ELSE LET d == Head(drone_ids)
             v == CASE cmd_type = "takeoff" -> _takeoff_drone(w, d, altitude)
                    [] cmd_type = "land"    -> _land_drone(w, d)
                    [] OTHER                -> _hover_drone(w, d)
         IN  ForEachDrone(v, cmd_type, Tail(drone_ids), altitude)

\* FormationPlanner.line; an axis other than x or y raises ValueError inside
\* the loop, so only when there is a drone to place.
LineAxisOk(axis) == axis \in {"x", "y"}

\* A line that starts at the center instead of being centred on it.
LineFromCenter(center, n, spacing, axis) ==
    [i \in 1..n |->
        LET offset == (i - 1) * spacing
        IN  IF axis = "x" THEN << center[1] + offset, center[2], center[3] >>
            ELSE << center[1], center[2] + offset, center[3] >>]

FormationLine(center, n, spacing, axis) ==
    [i \in 1..n |->
        LET offset == ((i - 1) * spacing * 2 - (n - 1) * spacing) \div 2
        IN  IF axis = "x" THEN << center[1] + offset, center[2], center[3] >>
            ELSE << center[1], center[2] + offset, center[3] >>]

\* num_drones / cols divides by zero when there is no drone to place.
GridSizeOk(n) == CeilSqrt(n) # 0

\* A grid centred as if it had as many rows as columns.
GridSquare(center, n, spacing) ==
    LET cols == CeilSqrt(n)
    IN  [i \in 1..n |->
            << center[1] + (((i - 1) % cols) * spacing * 2 - (cols - 1) * spacing) \div 2,
               center[2] + (((i - 1) \div cols) * spacing * 2 - (cols - 1) * spacing) \div 2,
               center[3] >>]

\* FormationPlanner.grid
FormationGrid(center, n, spacing) ==
    LET cols == CeilSqrt(n)
        rows == IF cols = 0 THEN 0 ELSE (n + cols - 1) \div cols
    IN  [i \in 1..n |->
            << center[1] + (((i - 1) % cols) * spacing * 2 - (cols - 1) * spacing) \div 2,
               center[2] + (((i - 1) \div cols) * spacing * 2 - (rows - 1) * spacing) \div 2,
               center[3] >>]

\* cos and sin of 2 * pi * i / n in thousandths, for the fleets of up to four
\* drones the model builds.
CircleUnit(n, i) ==
    CASE n = 1 -> << 1000, 0 >>
      [] n = 2 -> IF i = 0 THEN << 1000, 0 >> ELSE << -1000, 0 >>
      [] n = 3 -> IF i = 0 THEN << 1000, 0 >>
                  ELSE IF i = 1 THEN << -500, 866 >> ELSE << -500, -866 >>
      [] OTHER -> IF i = 0 THEN << 1000, 0 >>
                  ELSE IF i = 1 THEN << 0, 1000 >>
                  ELSE IF i = 2 THEN << -1000, 0 >> ELSE << 0, -1000 >>

\* FormationPlanner.circle
FormationCircle(center, n, radius) ==
    [i \in 1..n |->
        << center[1] + TruncDiv(radius * CircleUnit(n, i - 1)[1], 1000),
           center[2] + TruncDiv(radius * CircleUnit(n, i - 1)[2], 1000),
           center[3] >>]

\* FormationPlanner.v_formation with its default angle pi / 6 (cos 0.866,
\* sin 0.5): the leader first, also for a fleet of none.
FormationV(center, n, spacing) ==
    [i \in 1..(IF n < 1 THEN 1 ELSE n) |->
        IF i = 1 THEN center
        ELSE LET back == i \div 2
                 side == IF (i - 1) % 2 = 0 THEN 1 ELSE -1
             IN  << center[1] - TruncDiv(back * spacing * 866, 1000),
                    center[2] + side * TruncDiv(back * spacing * 500, 1000),
                    center[3] >>]

KnownPatterns == {"line", "circle", "grid", "v"}

\* The planner call _set_formation makes for a known pattern.
FormationPositions(pattern, center, n, spacing, radius, axis) ==
    CASE pattern = "line" -> FormationLine(center, n, spacing, axis)
      [] pattern = "circle" -> FormationCircle(center, n, radius)
      [] pattern = "grid" -> FormationGrid(center, n, spacing)
      [] OTHER -> FormationV(center, n, spacing)

\* An assignment that leaves out the drones that are not Idle.
RECURSIVE AssignIdleOnly(_, _, _)
AssignIdleOnly(w, positions, i) ==
    IF i > Len(positions) THEN w
    ELSE AssignIdleOnly(
            IF i - 1 < w.num_drones /\ w.drone_modes[i - 1] = "idle"
            THEN [w EXCEPT !.target_positions = Put(@, i - 1, clamp_position(positions[i])),
                           !.target_yaws = Put(@, i - 1, 0),
                           !.drone_modes = Put(@, i - 1, "goto")]
            ELSE w,
            positions, i + 1)

\* for i, pos in enumerate(positions): if i < self.num_drones: ...
RECURSIVE AssignFormation(_, _, _)
AssignFormation(w, positions, i) ==
    IF i > Len(positions) THEN w
    ELSE AssignFormation(
            IF i - 1 < w.num_drones
            THEN [w EXCEPT !.target_positions = Put(@, i - 1, clamp_position(positions[i])),
                           !.target_yaws = Put(@, i - 1, 0),
                           !.drone_modes = Put(@, i - 1, "goto")]
            ELSE w,
            positions, i + 1)

\* A handler for which an unknown pattern is an error.
SetFormationStrict(w, params) ==
    IF ~({"pattern", "center"} \subseteq DOMAIN params) THEN Raise(w)
    ELSE LET pattern == params.pattern
             center  == params.center
             spacing == Get(params, "spacing", 100)
             radius  == Get(params, "radius", 150)
             axis    == Get(params, "axis", "x")
         IN  IF pattern \notin KnownPatterns THEN Raise(w)
             ELSE IF pattern = "line" /\ w.num_drones > 0 /\ ~LineAxisOk(axis) THEN Raise(w)
             ELSE IF pattern = "grid" /\ ~GridSizeOk(w.num_drones) THEN Raise(w)
             ELSE AssignFormation(w,
                    FormationPositions(pattern, center, w.num_drones, spacing, radius, axis), 1)

\* _set_formation: a missing key raises KeyError, an unknown pattern returns
\* after a message, a line along an axis other than x or y raises ValueError,
\* a grid for no drone raises ZeroDivisionError.
_set_formation(w, params) ==
    IF ~({"pattern", "center"} \subseteq DOMAIN params) THEN Raise(w)
    ELSE LET pattern == params.pattern
             center  == params.center
             spacing == Get(params, "spacing", 100)
             radius  == Get(params, "radius", 150)
             axis    == Get(params, "axis", "x")
         IN  IF pattern \notin KnownPatterns THEN w
             ELSE IF pattern = "line" /\ w.num_drones > 0 /\ ~LineAxisOk(axis) THEN Raise(w)
             ELSE IF pattern = "grid" /\ ~GridSizeOk(w.num_drones) THEN Raise(w)
             ELSE AssignFormation(w,
                    FormationPositions(pattern, center, w.num_drones, spacing, radius, axis), 1)

\* A reset that leaves the controllers as they are.
ResetKeepControllers(w) ==
    LET fleet == 0..(w.num_drones - 1)
    IN  [w EXCEPT !.env_pos = InitialXYZ(w.num_drones),
                  !.sim_time = 0, !.last_control_time = 0, !.step_count = 0,
                  !.drone_modes = [i \in (DOMAIN @) \cup fleet |-> IF i \in fleet THEN "idle" ELSE @[i]],
                  !.batteries = [i \in (DOMAIN @) \cup fleet |-> IF i \in fleet THEN BatteryFull ELSE @[i]],
                  !.health_status = [i \in (DOMAIN @) \cup fleet |-> IF i \in fleet THEN TRUE ELSE @[i]],
                  !.target_positions = EmptyDict, !.target_yaws = EmptyDict,
                  !.target_velocities = EmptyDict, !.target_yaw_rates = EmptyDict,
                  !.hover_positions = EmptyDict]

_reset_simulation(w) ==
    LET fleet == 0..(w.num_drones - 1)
    IN  [w EXCEPT !.env_pos = InitialXYZ(w.num_drones),
                  !.sim_time = 0, !.last_control_time = 0, !.step_count = 0,
                  !.drone_modes = [i \in (DOMAIN @) \cup fleet |-> IF i \in fleet THEN "idle" ELSE @[i]],
                  !.batteries = [i \in (DOMAIN @) \cup fleet |-> IF i \in fleet THEN BatteryFull ELSE @[i]],
                  !.health_status = [i \in (DOMAIN @) \cup fleet |-> IF i \in fleet THEN TRUE ELSE @[i]],
                  !.position_controllers = [i \in DOMAIN @ |-> IF i \in fleet THEN PositionControllerReset(@[i]) ELSE @[i]],
                  !.target_positions = EmptyDict, !.target_yaws = EmptyDict,
                  !.target_velocities = EmptyDict, !.target_yaw_rates = EmptyDict,
                  !.hover_positions = EmptyDict]

\* _respawn up to the end of _init_environment: the old environment is closed,
\* num_drones is the new count and the new environment exists, while the
\* per-drone dicts are still those of the old fleet.
RespawnEnvironment(w, num) ==
    [w EXCEPT !.num_drones = num, !.env_pos = InitialXYZ(num), !.respawning = TRUE]

\* A respawn that rebuilds the fleet but keeps the stored targets.
RespawnKeepTargets(w, num) ==
    [w EXCEPT !.drone_modes = [i \in 0..(num - 1) |-> "idle"],
              !.batteries = [i \in 0..(num - 1) |-> BatteryFull],
              !.health_status = [i \in 0..(num - 1) |-> TRUE],
              !.position_controllers = [i \in 0..(num - 1) |-> PositionController],
              !.sim_time = 0, !.last_control_time = 0, !.step_count = 0]

\* The rest of _respawn.
RespawnState(w, num) ==
    [w EXCEPT !.drone_modes = [i \in 0..(num - 1) |-> "idle"],
              !.batteries = [i \in 0..(num - 1) |-> BatteryFull],
              !.health_status = [i \in 0..(num - 1) |-> TRUE],
              !.position_controllers = [i \in 0..(num - 1) |-> PositionController],
              !.target_positions = EmptyDict, !.target_yaws = EmptyDict,
              !.target_velocities = EmptyDict, !.target_yaw_rates = EmptyDict,
              !.hover_positions = EmptyDict,
              !.sim_time = 0, !.last_control_time = 0, !.step_count = 0]

\* "all" resolved against the drone count the handler saw when it enqueued.
ResolveIdsAtEnqueue(item, n) == IF item.cmd.all THEN Range(item.n_enq) ELSE item.cmd.drone_ids

\* A resolution that addresses the whole fleet whatever ids the command names.
ResolveEveryDrone(item, n) == Range(n)

\* if cmd.drone_ids == "all": list(range(self.num_drones)) else cmd.drone_ids
ResolveIds(item, n) == IF item.cmd.all THEN Range(n) ELSE item.cmd.drone_ids

\* A dispatch that raises for a command of no known kind.
ExecuteKnownOnly(w, item) ==
    LET cmd == item.cmd
        drone_ids == ResolveIds(item, w.num_drones)
        p == cmd.params
    IN  CASE cmd.cmd_type \in {"takeoff", "land", "hover"} ->
                ForEachDrone(w, cmd.cmd_type, drone_ids, Get(p, "altitude", DefaultAltitude))
          [] cmd.cmd_type = "goto" ->
                IF ~({"id", "x", "y", "z"} \subseteq DOMAIN p) THEN Raise(w)
                ELSE _goto_position(w, p.id, << p.x, p.y, p.z >>, Get(p, "yaw", 0))
          [] cmd.cmd_type = "velocity" ->
                IF ~({"id", "vx", "vy", "vz"} \subseteq DOMAIN p) THEN Raise(w)
                ELSE _set_velocity(w, p.id, << p.vx, p.vy, p.vz >>, Get(p, "yaw_rate", 0))
          [] cmd.cmd_type = "formation" -> _set_formation(w, p)
          [] cmd.cmd_type = "reset" -> _reset_simulation(w)
          [] cmd.cmd_type = "spawn" -> RespawnEnvironment(w, Get(p, "num", DefaultSpawn))
          [] OTHER -> Raise(w)

\* item is the queued command with its history tags; cmd is the DroneCommand.
_execute_command(w, item) ==
    LET cmd == item.cmd
        drone_ids == ResolveIds(item, w.num_drones)
        p == cmd.params
    IN  CASE cmd.cmd_type \in {"takeoff", "land", "hover"} ->
                ForEachDrone(w, cmd.cmd_type, drone_ids, Get(p, "altitude", DefaultAltitude))
          [] cmd.cmd_type = "goto" ->
                IF ~({"id", "x", "y", "z"} \subseteq DOMAIN p) THEN Raise(w)
                ELSE _goto_position(w, p.id, << p.x, p.y, p.z >>, Get(p, "yaw", 0))
          [] cmd.cmd_type = "velocity" ->
                IF ~({"id", "vx", "vy", "vz"} \subseteq DOMAIN p) THEN Raise(w)
                ELSE _set_velocity(w, p.id, << p.vx, p.vy, p.vz >>, Get(p, "yaw_rate", 0))
          [] cmd.cmd_type = "formation" -> _set_formation(w, p)
          [] cmd.cmd_type = "reset" -> _reset_simulation(w)
          [] cmd.cmd_type = "spawn" -> RespawnEnvironment(w, Get(p, "num", DefaultSpawn))
          [] OTHER -> w

\* ------------------------------------------------------------------ step()
\* A test of the time since the start instead of since the last update.
ControlDueSinceStart(simt, lastt) == simt * ControlHz >= PhysicsHz

\* sim_time - last_control_time >= control_dt - 1e-6, with both times whole
\* numbers of physics ticks.
ControlDue(simt, lastt) == (simt - lastt) * ControlHz >= PhysicsHz

\* The same test for any pair of rates, with its tolerance: elapsed physics
\* steps e are enough when e / physics_hz >= 1 / control_hz - 1e-6.
ControlDueHz(e, physics_hz, control_hz) ==
    e * control_hz * 1000000 >= physics_hz * 1000000 - physics_hz * control_hz

\* The position-controlled modes with Idle among them.
PositionModesAndIdle == {"takeoff", "landing", "goto", "hover", "idle"}

PositionModes == {"takeoff", "landing", "goto", "hover"}

\* Steps from one control update to the next: the least advance of sim_time
\* that makes the control update due.
ControlPeriod == CHOOSE k \in 1..PhysicsHz : ControlDue(k, 0) /\ ~ControlDue(k - 1, 0)

\* The landing test for any drone holding a position.
LowWhileHolding(mode, current_pos) ==
    mode \in {"landing", "hover", "goto"} /\ current_pos[3] < LandedBelow

\* The landing test without its mode condition.
LowInAnyMode(mode, current_pos) == current_pos[3] < LandedBelow

\* The landing test against the landing target's altitude.
LandedAtTarget(mode, current_pos) == mode = "landing" /\ current_pos[3] < LandZ

\* The arrival tests of _control_update for one drone.
Landed(mode, current_pos) == mode = "landing" /\ current_pos[3] < LandedBelow

TakeoffArrived(mode, current_pos, target_pos) ==
    mode = "takeoff" /\ Dist2(target_pos, current_pos) < ArriveWithin * ArriveWithin

\* An anchor at the takeoff target.
AnchorAtTarget(current_pos, target_pos) == target_pos

\* The hover anchor of a drone that arrived: current_pos.copy().
HoverAnchor(current_pos, target_pos) == current_pos

_control_update(w) ==
    LET fleet == 0..(w.num_drones - 1)
        tracked(d) == w.drone_modes[d] \in PositionModes /\ d \in DOMAIN w.target_positions
        pos(d) == _get_position(w.env_pos, d)
        landed(d) == tracked(d) /\ Landed(w.drone_modes[d], pos(d))
        arrived(d) == tracked(d) /\ ~landed(d)
                        /\ TakeoffArrived(w.drone_modes[d], pos(d), w.target_positions[d])
        zeroed == {d \in fleet : landed(d) \/ w.drone_modes[d] = "idle"}
        anchored == {d \in fleet : arrived(d)}
    IN  [w EXCEPT
            !.drone_modes = [d \in DOMAIN @ |->
                IF d \in fleet /\ landed(d) THEN "idle"
                ELSE IF d \in fleet /\ arrived(d) THEN "hover" ELSE @[d]],
            !.target_velocities = [d \in (DOMAIN @) \cup zeroed |->
                IF d \in zeroed THEN Zero3 ELSE @[d]],
            !.hover_positions = [d \in (DOMAIN @) \cup anchored |->
                IF d \in anchored THEN HoverAnchor(pos(d), w.target_positions[d]) ELSE @[d]]]

\* An action row with a direction for every speed that is not below 0.01 m/s.
VelocityActionBelowOnly(vel) ==
    LET speed2 == Dist2(vel, Zero3)
        speed  == FloorSqrt(speed2)
    IN  IF speed2 >= SpeedDeadband * SpeedDeadband
        THEN << (vel[1] * 1000) \div speed, (vel[2] * 1000) \div speed,
                (vel[3] * 1000) \div speed, Min((speed * 1000) \div SpeedScale, 1000) >>
        ELSE << 0, 0, 0, 0 >>

\* One row of the action array: [direction x, y, z, speed fraction], the
\* direction vel / speed and the fraction min(speed / 2.0, 1.0) in thousandths,
\* or zeros when the speed is not above 0.01 m/s.
VelocityAction(vel) ==
    LET speed2 == Dist2(vel, Zero3)
        speed  == FloorSqrt(speed2)
    IN  IF speed2 > SpeedDeadband * SpeedDeadband
        THEN << (vel[1] * 1000) \div speed, (vel[2] * 1000) \div speed,
                (vel[3] * 1000) \div speed, Min((speed * 1000) \div SpeedScale, 1000) >>
        ELSE << 0, 0, 0, 0 >>

\* _compute_actions: the action array it returns (kept in actions) and what it
\* leaves in self. For a drone in a position mode with a target the controller
\* runs, on every step, and its output is stored.
_compute_actions(w) ==
    LET fleet == 0..(w.num_drones - 1)
        run == {d \in fleet : w.drone_modes[d] \in PositionModes /\ d \in DOMAIN w.target_positions}
        out(d) == compute_control(w.position_controllers[d], _get_position(w.env_pos, d),
                                  w.target_positions[d], _get_yaw(w.env_pos, d),
                                  Get(w.target_yaws, d, 0))
    IN  [w EXCEPT
            !.position_controllers = [d \in DOMAIN @ |-> IF d \in run THEN out(d).ctrl ELSE @[d]],
            !.target_velocities = [d \in (DOMAIN @) \cup run |->
                IF d \in run THEN out(d).vel ELSE @[d]],
            !.target_yaw_rates = [d \in (DOMAIN @) \cup run |->
                IF d \in run THEN out(d).yaw_rate ELSE @[d]],
            !.actions = [d \in fleet |->
                IF d \in run THEN VelocityAction(out(d).vel)
                ELSE IF w.drone_modes[d] = "velocity"
                THEN VelocityAction(Get(w.target_velocities, d, Zero3))
                ELSE << 0, 0, 0, 0 >>]]

\* A drain that takes from Idle drones as well.
DrainEveryDrone(w) ==
    LET fleet == 0..(w.num_drones - 1)
    IN  [w EXCEPT !.batteries = [d \in DOMAIN @ |->
            IF d \in fleet
            THEN (IF @[d] - DrainPerSecond < 0 THEN 0 ELSE @[d] - DrainPerSecond)
            ELSE @[d]]]

\* A drain with no floor.
DrainBelowZero(w) ==
    LET fleet == 0..(w.num_drones - 1)
    IN  [w EXCEPT !.batteries = [d \in DOMAIN @ |->
            IF d \in fleet /\ w.drone_modes[d] # "idle" THEN @[d] - DrainPerSecond ELSE @[d]]]

_update_batteries(w) ==
    LET fleet == 0..(w.num_drones - 1)
    IN  [w EXCEPT !.batteries = [d \in DOMAIN @ |->
            IF d \in fleet /\ w.drone_modes[d] # "idle"
            THEN (IF @[d] - DrainPerSecond < 0 THEN 0 ELSE @[d] - DrainPerSecond)
            ELSE @[d]]]

Unhealthy(pos, battery) ==
    \/ Abs(pos[1]) > HealthXY
    \/ Abs(pos[2]) > HealthXY
    \/ pos[3] < 0
    \/ pos[3] > HealthZMax
    \/ battery <= 0

\* A health check that latches: once unhealthy, a drone stays unhealthy.
CheckHealthLatched(w) ==
    LET fleet == 0..(w.num_drones - 1)
    IN  [w EXCEPT !.health_status = [d \in DOMAIN @ |->
            IF d \in fleet
            THEN @[d] /\ ~Unhealthy(_get_position(w.env_pos, d), w.batteries[d])
            ELSE @[d]]]

\* A health check that also takes an unhealthy drone out of its mode.
CheckHealthAndStop(w) ==
    LET fleet == 0..(w.num_drones - 1)
        bad == {d \in fleet : Unhealthy(_get_position(w.env_pos, d), w.batteries[d])}
    IN  [w EXCEPT !.health_status = [d \in DOMAIN @ |-> IF d \in fleet THEN d \notin bad ELSE @[d]],
                  !.drone_modes = [d \in DOMAIN @ |-> IF d \in bad THEN "idle" ELSE @[d]]]

_check_health(w) ==
    LET fleet == 0..(w.num_drones - 1)
    IN  [w EXCEPT !.health_status = [d \in DOMAIN @ |->
            IF d \in fleet THEN ~Unhealthy(_get_position(w.env_pos, d), w.batteries[d])
            ELSE @[d]]]

\* step() from the control test up to the health check.
StepBeforeHealth(w, new_pos) ==
    LET w1 == IF ControlDue(w.sim_time, w.last_control_time)
              THEN [_control_update(w) EXCEPT !.last_control_time = w.sim_time]
              ELSE w
        w2 == _compute_actions(w1)
        w3 == [w2 EXCEPT !.env_pos = new_pos,
                         !.sim_time = @ + 1,
                         !.step_count = @ + 1]
        w4 == IF w3.step_count % PhysicsHz = 0 THEN _update_batteries(w3) ELSE w3
    IN  w4

\* step() from the control test to its return, for the kinematics the physics
\* step produces.
StepAfterDrain(w, new_pos) == _check_health(StepBeforeHealth(w, new_pos))

\* ------------------------------------------------------------ the queue
\* A put at the head of the queue.
QueuePutFirst(q, item) == <<item>> \o q

\* Queue.put and Queue.get_nowait: each is atomic under the queue's mutex.
QueuePut(q, item) == Append(q, item)

QueueGet(q) == [item |-> Head(q), rest |-> Tail(q)]

\* ----------------------------------------------------------------- actions
\* A handler that applies its command to the world itself, on its own thread.
EnqueueApplied(p, cmd) ==
    /\ enq_count < MaxCmds
    /\ Store(_execute_command(Self, [cmd |-> cmd, seq |-> enq_count + 1, prod |-> p,
                                      pseq |-> prod_enq[p] + 1, n_enq |-> num_drones]))
    /\ enq_count' = enq_count + 1
    /\ prod_enq' = [prod_enq EXCEPT ![p] = @ + 1]
    /\ UNCHANGED << call, command_queue, pc, respawn_num, reader, disp_count, drain_mark, drained,
                    last_raised, steps_begun, steps_done, prev_health, step_report >>

\* A network handler on producer thread p builds command k and calls
\* swarm.enqueue_command. The tags record when it was enqueued.
EnqueueCommand(p, cmd) ==
    /\ enq_count < MaxCmds
    /\ command_queue' = QueuePut(command_queue,
            [cmd |-> cmd, seq |-> enq_count + 1, prod |-> p,
             pseq |-> prod_enq[p] + 1, n_enq |-> num_drones])
    /\ enq_count' = enq_count + 1
    /\ prod_enq' = [prod_enq EXCEPT ![p] = @ + 1]
    /\ UNCHANGED << call, world, pc, respawn_num, reader, disp_count, drain_mark, drained,
                    last_raised, steps_begun, steps_done, prev_health, step_report >>

Enqueue(p, k) == EnqueueCommand(p, Commands[k])

\* simulation_loop calls swarm.step(); step() enters _process_commands.
StepBegin ==
    /\ pc = "idle"
    /\ steps_begun < MaxSteps
    /\ pc' = "drain"
    /\ steps_begun' = steps_begun + 1
    /\ drain_mark' = enq_count
    /\ drained' = <<>>
    /\ UNCHANGED << call, world, command_queue, respawn_num, reader, enq_count, disp_count,
                    prod_enq, last_raised, steps_done, prev_health, step_report >>

\* One turn of the loop of _process_commands with a command in the queue:
\* get_nowait, then _execute_command. An exception other than Empty leaves
\* step() and ends simulation_loop.
DrainCommand ==
    /\ pc = "drain"
    /\ command_queue # <<>>
    /\ LET got == QueueGet(command_queue)
           w   == _execute_command(Self, got.item)
       IN  /\ Store(w)
           /\ command_queue' = got.rest
           /\ drained' = Append(drained, got.item)
           /\ last_raised' = w.raised
           /\ pc' = IF w.raised THEN "dead" ELSE IF w.respawning THEN "respawn" ELSE "drain"
           /\ respawn_num' = IF w.respawning /\ ~w.raised THEN w.num_drones ELSE 0
    /\ disp_count' = disp_count + 1
    /\ UNCHANGED << call, reader, enq_count, prod_enq, drain_mark, steps_begun, steps_done,
                    prev_health, step_report >>

\* _respawn after _init_environment: the per-drone dicts and the clocks.
RespawnFinish ==
    /\ pc = "respawn"
    /\ Store(RespawnState(Self, respawn_num))
    /\ pc' = "drain"
    /\ respawn_num' = 0
    /\ UNCHANGED << call, command_queue, reader, history >>

\* get_nowait raises Empty: the drain is over.
DrainEmpty ==
    /\ pc = "drain"
    /\ command_queue = <<>>
    /\ pc' = "control"
    /\ UNCHANGED << call, world, command_queue, respawn_num, reader, history >>

\* What env.step may return about the end of the episode. The five-value API
\* returns terminated and truncated, each one flag (kind scalar) or a dict of
\* flags by drone id, possibly without some ids (kind dict); the four-value API
\* returns the dict dones itself (kind dones, held in terminated).
ScalarReports ==
    {[kind |-> "scalar", terminated |-> t, truncated |-> u] : t \in BOOLEAN, u \in BOOLEAN}

PartialFlags(n) == UNION {[ids -> BOOLEAN] : ids \in SUBSET (0..(n - 1))}

DictReports(n) ==
    {[kind |-> "dict", terminated |-> t, truncated |-> u] :
        t \in PartialFlags(n), u \in {EmptyDict} \cup [0..(n - 1) -> BOOLEAN]}

DonesReports(n) ==
    {[kind |-> "dones", terminated |-> t, truncated |-> FALSE] : t \in [0..(n - 1) -> BOOLEAN]}

AllReports(n) == ScalarReports \cup DictReports(n) \cup DonesReports(n)

\* The reports of an environment that ends the episode for the whole fleet or
\* not at all, and never truncates it.
EpisodeReports(n) == {r \in ScalarReports : ~r.truncated}

\* The dict dones step() builds from what env.step returned.
Dones(report, n) ==
    CASE report.kind = "dict" ->
            [i \in 0..(n - 1) |->
                Get(report.terminated, i, FALSE) \/ Get(report.truncated, i, FALSE)]
      [] report.kind = "scalar" ->
            [i \in 0..(n - 1) |-> report.terminated \/ report.truncated]
      [] OTHER -> report.terminated

\* A return value that stops the loop as soon as one drone is done.
ContinuesWhileNoneDone(dones) == ~(\E k \in DOMAIN dones : dones[k])

\* return not all(dones.values())
StepContinues(dones) == ~(\A k \in DOMAIN dones : dones[k])

\* The rest of step(): control update when due, actions, the physics step,
\* clocks, batteries, health; step() returns False when every entry of dones
\* is true, and simulation_loop then stops. motions is the set of positions
\* the physics step may produce, reports the set of reports it may return.
StepWith(motions, reports) ==
    /\ pc = "control"
    /\ \E new_pos \in motions, report \in reports :
           /\ Store(StepAfterDrain(Self, new_pos))
           /\ pc' = IF StepContinues(Dones(report, num_drones)) THEN "idle" ELSE "stopped"
           /\ step_report' = report
    /\ steps_done' = steps_done + 1
    /\ prev_health' = health_status
    /\ UNCHANGED << call, command_queue, respawn_num, reader, enq_count, disp_count, prod_enq,
                    drain_mark, drained, last_raised, steps_begun >>

StepFinish(motions) == StepWith(motions, EpisodeReports(num_drones))

\* An entry that holds the world's own position array and dict entries rather
\* than copies of them.
StateEntryAliased(drone_id, envp, bats, health, tick) ==
    [id |-> drone_id, pos |-> _get_position(envp, drone_id), battery |-> bats[drone_id],
     healthy |-> health[drone_id], tick |-> tick, copied |-> FALSE]

\* The dict get_state appends for one drone: pos.tolist(), float(...) and
\* bool(...) make new objects, so the entry holds copies. tick is history: the
\* number of steps that had returned when the entry was read.
StateEntry(drone_id, envp, bats, health, tick) ==
    [id |-> drone_id, pos |-> _get_position(envp, drone_id), battery |-> bats[drone_id],
     healthy |-> health[drone_id], tick |-> tick, copied |-> TRUE]

\* What the holder of a list of entries reads from it when the world is envp,
\* bats, health: a copy reads as it was made, an alias reads the world.
SnapshotRead(states, envp, bats, health) ==
    [k \in DOMAIN states |->
        LET e == states[k]
        IN  IF e.copied THEN e
            ELSE [e EXCEPT !.pos = IF IndexOk(envp, e.id) THEN _get_position(envp, e.id) ELSE << >>,
                           !.battery = Get(bats, e.id, -1),
                           !.healthy = Get(health, e.id, FALSE)]]

\* get_state() on a handler thread: range(self.num_drones) is evaluated.
GetStateBegin ==
    /\ gs_pc = "idle"
    /\ reads_begun < MaxReads
    /\ gs_pc' = "read"
    /\ gs_n' = num_drones
    /\ gs_i' = 0
    /\ gs_states' = <<>>
    /\ reads_begun' = reads_begun + 1
    /\ UNCHANGED << call, world, command_queue, pc, respawn_num, gs_timestamp, history >>

\* One turn of get_state's loop.
GetStateRead ==
    /\ gs_pc = "read"
    /\ gs_i < gs_n
    /\ IF IndexOk(env_pos, gs_i) /\ gs_i \in DOMAIN batteries /\ gs_i \in DOMAIN health_status
       THEN /\ gs_states' = Append(gs_states,
                    StateEntry(gs_i, env_pos, batteries, health_status, steps_done))
            /\ gs_i' = gs_i + 1
            /\ gs_pc' = "read"
       ELSE /\ gs_pc' = "failed"
            /\ UNCHANGED << gs_states, gs_i >>
    /\ UNCHANGED << call, world, command_queue, pc, respawn_num, gs_n, gs_timestamp, reads_begun,
                    history >>

GetStateReturn ==
    /\ gs_pc = "read"
    /\ gs_i = gs_n
    /\ gs_pc' = "done"
    /\ gs_timestamp' = sim_time
    /\ UNCHANGED << call, world, command_queue, pc, respawn_num, gs_n, gs_i, gs_states,
                    reads_begun, history >>

\* The handler is finished with the result (or with the exception).
GetStateEnd ==
    /\ gs_pc \in {"done", "failed"}
    /\ gs_pc' = "idle"
    /\ gs_n' = 0
    /\ gs_i' = 0
    /\ gs_states' = <<>>
    /\ gs_timestamp' = 0
    /\ UNCHANGED << call, world, command_queue, pc, respawn_num, reads_begun, history >>

\* The control thread's part of every specification, but for the physics.
ControlThread ==
    \/ StepBegin
    \/ DrainCommand
    \/ RespawnFinish
    \/ DrainEmpty

\* Every command from either producer, over a fleet that stays where it is
\* (the drones rest or hover in place).
Next ==
    \/ \E p \in Producers, k \in 1..Len(Commands) : Enqueue(p, k)
    \/ ControlThread
    \/ StepFinish({env_pos})

Spec == Init /\ [][Next]_vars

\* One producer sending the well-formed flight commands to a fleet that moves.
FlightCommands == {1, 3, 4, 5, 6, 9, 10, 13, 14}

NextFlight ==
    \/ \E k \in FlightCommands : Enqueue(1, k)
    \/ ControlThread
    \/ StepFinish(AnyMotion(num_drones))

SpecFlight == Init /\ [][NextFlight]_vars

\* A reader thread calling get_state() while the control thread steps and a
\* producer sends fleet-wide commands.
FleetCommands == {13, 14, 15}

NextRead ==
    \/ \E k \in FleetCommands : Enqueue(1, k)
    \/ ControlThread
    \/ StepFinish(AnyMotion(num_drones))
    \/ GetStateBegin
    \/ GetStateRead
    \/ GetStateReturn
    \/ GetStateEnd

SpecRead == Init /\ [][NextRead]_vars

\* A world late in a long flight. After construction the velocity command of
\* Commands was applied to drone 0 in the first step, and secs simulated
\* seconds of steps have returned since: drone 0 has been in Velocity mode and
\* drained every second, so its battery is at its last unit or empty, any
\* other drone has stayed Idle, and the fleet is wherever the physics took it.
\* The history counters count from here.
WornSeconds == { BatteryFull \div DrainPerSecond - 1, BatteryFull \div DrainPerSecond }

InitWorn ==
    \E n \in 1..MaxDrones, secs \in WornSeconds :
      \E places \in StrayMotion(n) :
        LET fleet == 0..(n - 1)
            p     == Commands[9].params
            vel   == clamp_velocity(<< p.vx, p.vy, p.vz >>)
            left  == [i \in fleet |-> IF i = 0 THEN BatteryFull - secs * DrainPerSecond
                                       ELSE BatteryFull]
        IN  /\ num_drones = n
            /\ command_queue = <<>>
            /\ drone_modes = [i \in fleet |-> IF i = 0 THEN "velocity" ELSE "idle"]
            /\ target_positions = EmptyDict
            /\ target_yaws = EmptyDict
            /\ target_velocities = [i \in fleet |-> IF i = 0 THEN vel ELSE Zero3]
            /\ target_yaw_rates = Put(EmptyDict, 0, Clip(p.yaw_rate, -Pi, Pi))
            /\ hover_positions = EmptyDict
            /\ position_controllers = [i \in fleet |-> PositionController]
            /\ batteries = left
            /\ env_pos = [i \in fleet |-> places[i]]
            /\ health_status = [i \in fleet |-> ~Unhealthy(places[i], left[i])]
            /\ prev_health = health_status
            /\ step_report = [kind |-> "scalar", terminated |-> FALSE, truncated |-> FALSE]
            /\ actions = [i \in fleet |-> IF i = 0 THEN VelocityAction(vel) ELSE << 0, 0, 0, 0 >>]
            /\ step_count = secs * PhysicsHz
            /\ sim_time = secs * PhysicsHz
            /\ last_control_time = ((secs * PhysicsHz - 1) \div ControlPeriod) * ControlPeriod
            /\ pc = "idle"
            /\ respawn_num = 0
            /\ gs_pc = "idle"
            /\ gs_n = 0
            /\ gs_i = 0
            /\ gs_states = <<>>
            /\ gs_timestamp = 0
            /\ enq_count = 0
            /\ disp_count = 0
            /\ prod_enq = [q \in Producers |-> 0]
            /\ drain_mark = 0
            /\ drained = <<>>
            /\ last_raised = FALSE
            /\ steps_begun = 0
            /\ steps_done = 0
            /\ reads_begun = 0
            /\ call = NoCall

\* One producer sending velocity, reset and spawn to the worn fleet while it
\* strays in and out of the health bounds.
WearCommands == {9, 13, 14}

NextWear ==
    \/ \E k \in WearCommands : Enqueue(1, k)
    \/ ControlThread
    \/ StepFinish(StrayMotion(num_drones))

SpecWear == InitWorn /\ [][NextWear]_vars

\* Places inside the health bounds: within the flight bounds, and beyond them
\* in x, y and z.
RoamPlaces == { <<0, 0, 96>>, <<BoundXY + 200, -BoundXY - 200, BoundZMax + 100>> }

RoamMotion(n) == [0..(n - 1) -> RoamPlaces]

\* Flight commands whose parameters lie inside, on and beyond the limits the
\* handlers apply, and a spawn of one drone.
ParamCommands ==
    { DroneCommand("takeoff", TRUE, <<>>, [altitude |-> 600]),
      DroneCommand("takeoff", FALSE, <<0>>, [altitude |-> 5]),
      DroneCommand("land", TRUE, <<>>, [none |-> 0]),
      DroneCommand("hover", TRUE, <<>>, [none |-> 0]),
      Commands[6],
      DroneCommand("goto", FALSE, <<0>>, [id |-> 0, x |-> -1001, y |-> 1000, z |-> 1, yaw |-> 1000]),
      DroneCommand("formation", TRUE, <<>>,
                   [pattern |-> "line", center |-> <<900, 0, 600>>, spacing |-> 400, axis |-> "x"]),
      DroneCommand("formation", TRUE, <<>>,
                   [pattern |-> "grid", center |-> <<0, -1100, 0>>, spacing |-> 100]),
      DroneCommand("formation", TRUE, <<>>,
                   [pattern |-> "circle", center |-> <<-900, 0, 100>>, radius |-> 150]),
      DroneCommand("formation", TRUE, <<>>,
                   [pattern |-> "v", center |-> <<0, 0, 100>>, spacing |-> 100]),
      DroneCommand("formation", TRUE, <<>>, [pattern |-> "spiral", center |-> <<0, 0, 100>>]),
      Commands[14] }

NextParams ==
    \/ \E cmd \in ParamCommands : EnqueueCommand(1, cmd)
    \/ ControlThread
    \/ StepFinish(RoamMotion(num_drones))

SpecParams == Init /\ [][NextParams]_vars

\* Velocity commands below, at and above the speed limit and the yaw-rate
\* limit, along and against the axes, at rest and at the action dead band, and
\* the commands that take a drone out of Velocity mode: land, reset, spawn.
VelocityCommands ==
    { Commands[9], Commands[3], Commands[13], Commands[14],
      DroneCommand("velocity", FALSE, <<0>>,
                   [id |-> 0, vx |-> 120, vy |-> 160, vz |-> 0, yaw_rate |-> -4000]),
      DroneCommand("velocity", FALSE, <<0>>,
                   [id |-> 0, vx |-> 0, vy |-> 0, vz |-> -201, yaw_rate |-> 1000]),
      DroneCommand("velocity", FALSE, <<1>>,
                   [id |-> 1, vx |-> 250, vy |-> -5, vz |-> 0, yaw_rate |-> -Pi]),
      DroneCommand("velocity", FALSE, <<0>>, [id |-> 0, vx |-> 0, vy |-> 0, vz |-> 0]),
      DroneCommand("velocity", FALSE, <<0>>,
                   [id |-> 0, vx |-> -1, vy |-> 0, vz |-> 0, yaw_rate |-> 0]) }

NextVelocity ==
    \/ \E cmd \in VelocityCommands : EnqueueCommand(1, cmd)
    \/ ControlThread
    \/ StepFinish(RoamMotion(num_drones))

SpecVelocity == Init /\ [][NextVelocity]_vars

\* A producer that respawns the fleet with none, one or MaxDrones drones (the
\* websocket handler passes num on unchecked), over an environment that may
\* return any report.
StopCommands ==
    { DroneCommand("spawn", TRUE, <<>>, [num |-> 0]), Commands[14], Commands[15] }

NextStop ==
    \/ \E cmd \in StopCommands : EnqueueCommand(1, cmd)
    \/ ControlThread
    \/ StepWith({env_pos}, AllReports(num_drones))

SpecStop == Init /\ [][NextStop]_vars

\* ================================================================== claims
Elements(seq) == {seq[i] : i \in DOMAIN seq}

Fleet == 0..(num_drones - 1)

\* A step has begun and is past its drain (or was left by an exception).
DrainOver == steps_begun > 0 /\ pc \notin {"drain", "respawn"}

\* DrainCommand is taking the head of the queue.
Dispatching == pc = "drain" /\ command_queue # <<>> /\ disp_count' = disp_count + 1

\* The mode a command of each kind gives the drones it addresses.
ModeOf(cmd_type) ==
    CASE cmd_type = "takeoff" -> "takeoff"
      [] cmd_type = "land" -> "landing"
      [] cmd_type = "hover" -> "hover"
      [] cmd_type \in {"goto", "formation"} -> "goto"
      [] cmd_type = "velocity" -> "velocity"
      [] OTHER -> "idle"

\* The drone ids a command names explicitly.
ExplicitIds(cmd) ==
    IF cmd.cmd_type \in {"goto", "velocity"}
    THEN (IF "id" \in DOMAIN cmd.params THEN {cmd.params.id} ELSE {})
    ELSE IF cmd.cmd_type \in {"takeoff", "land", "hover"} /\ ~cmd.all
         THEN Elements(cmd.drone_ids) ELSE {}

\* C1: within one step(), every command that was in the queue when the drain
\* began has been taken and dispatched, in enqueue order, by the time the step
\* is past its drain (before its control update and action computation).
C1_QueuedAppliedInOrderBeforeControl ==
    DrainOver =>
        /\ disp_count >= drain_mark
        /\ \A i \in 1..Len(drained) : drained[i].seq = disp_count - Len(drained) + i

\* C2: a command that fails during dispatch does not abort the tick: the
\* control loop keeps running after it.
C2_FailedCommandKeepsLoopRunning ==
    last_raised => pc # "dead"

\* C3: dispatching a command that names a drone id outside 0..N-1 changes no
\* per-drone entry and lets step() go on.
C3_OutOfRangeIdDropped ==
    [][ (Dispatching /\ \E id \in ExplicitIds(Head(command_queue).cmd) : id \notin Fleet)
            => /\ UNCHANGED << drone_modes, target_positions, target_yaws, target_velocities,
                               target_yaw_rates, hover_positions, batteries, health_status,
                               position_controllers >>
               /\ pc' = "drain" ]_vars

\* C4: a get_state() call concurrent with step() never fails, and every entry
\* of the state it returns was read at the same completed tick.
C4_GetStateNeverTornNeverFails ==
    /\ gs_pc # "failed"
    /\ gs_pc = "done" =>
            /\ Len(gs_states) = gs_n
            /\ \A i, j \in 1..Len(gs_states) : gs_states[i].tick = gs_states[j].tick

\* C5: every enqueued command is applied exactly once: a dispatched command
\* is never in the queue again, and once a drain is over no command enqueued
\* before that drain began is still in the queue.
C5_AppliedOnceByFirstDrain ==
    /\ \A i \in 1..Len(command_queue) : command_queue[i].seq > disp_count
    /\ DrainOver => \A i \in 1..Len(command_queue) : command_queue[i].seq > drain_mark

\* C6: with producers enqueuing concurrently with each other and with the
\* drain, no command is lost or duplicated (each enqueued command is either
\* still in the queue or was dispatched once, in the order of enqueuing), and
\* the commands of one producer are dispatched in the order it enqueued them.
C6_NoLossNoDuplicateProducerOrder ==
    /\ Len(command_queue) + disp_count = enq_count
    /\ \A i \in 1..Len(command_queue) : command_queue[i].seq = disp_count + i
    /\ \A i \in 1..Len(drained) : drained[i].seq = disp_count - Len(drained) + i
    /\ \A i, j \in 1..Len(drained) :
            (i < j /\ drained[i].prod = drained[j].prod) => drained[i].pseq < drained[j].pseq
    /\ \A i, j \in 1..Len(command_queue) :
            (i < j /\ command_queue[i].prod = command_queue[j].prod)
                => command_queue[i].pseq < command_queue[j].pseq
    /\ \A i \in 1..Len(drained), j \in 1..Len(command_queue) :
            drained[i].prod = command_queue[j].prod => drained[i].pseq < command_queue[j].pseq

\* Two producers' commands dispatched in one drain, the second one enqueued
\* while that drain was running.
C6_Witness ==
    /\ Len(drained) = 2
    /\ drained[1].prod # drained[2].prod
    /\ drained[2].seq > drain_mark

\* Whether a dispatched command addressed drone d of the present fleet.
Addresses(cmd, d) ==
    CASE cmd.cmd_type \in {"takeoff", "land", "hover"} -> cmd.all \/ d \in Elements(cmd.drone_ids)
      [] cmd.cmd_type \in {"goto", "velocity"} -> d \in ExplicitIds(cmd)
      [] cmd.cmd_type = "formation" ->
            "pattern" \in DOMAIN cmd.params /\ cmd.params.pattern \in KnownPatterns
      [] cmd.cmd_type \in {"reset", "spawn"} -> TRUE
      [] OTHER -> FALSE

\* The enqueue numbers of the commands of the latest drain that addressed d.
AddressedBy(d) == {drained[i].seq : i \in {k \in 1..Len(drained) : Addresses(drained[k].cmd, d)}}

LastAddressing(d) ==
    LET last == CHOOSE n \in AddressedBy(d) : \A m \in AddressedBy(d) : m <= n
    IN  (CHOOSE i \in 1..Len(drained) : drained[i].seq = last)

\* C7: after a drain, each drone's mode is the one set by the last command, in
\* queue order, that addressed it; takeoff(all) then land(all) leaves every
\* drone Landing.
C7_LastCommandWins ==
    pc = "control" =>
        \A d \in Fleet :
            AddressedBy(d) # {} =>
                drone_modes[d] = ModeOf(drained[LastAddressing(d)].cmd.cmd_type)

\* takeoff(all) and land(all) enqueued before any step, after the first drain.
C7_Witness ==
    /\ pc = "control"
    /\ steps_begun = 1
    /\ drain_mark = 2
    /\ Len(drained) = 2
    /\ drained[1].cmd.cmd_type = "takeoff" /\ drained[1].cmd.all
    /\ drained[2].cmd.cmd_type = "land" /\ drained[2].cmd.all
    /\ \A d \in Fleet : drone_modes[d] = "landing"

\* C8: a takeoff, land or hover whose target is "all" is resolved against the
\* drone count in force when it is dispatched: it sets the mode and target of
\* exactly the drones 0..num_drones-1 and of no other id.
C8_AllResolvedAtDispatch ==
    [][ (Dispatching /\ Head(command_queue).cmd.all
            /\ Head(command_queue).cmd.cmd_type \in {"takeoff", "land", "hover"})
            => /\ pc' = "drain"
               /\ num_drones' = num_drones
               /\ \A d \in Fleet :
                    /\ drone_modes'[d] = ModeOf(Head(command_queue).cmd.cmd_type)
                    /\ d \in DOMAIN target_positions'
               /\ DOMAIN drone_modes' = DOMAIN drone_modes
               /\ \A d \in (DOMAIN drone_modes) \ Fleet : drone_modes'[d] = drone_modes[d]
               /\ DOMAIN target_positions' = (DOMAIN target_positions) \cup Fleet
               /\ \A d \in (DOMAIN target_positions) \ Fleet :
                    target_positions'[d] = target_positions[d] ]_vars

\* land(all), enqueued for another drone count, dispatched in the drain that
\* applied a spawn before it.
C8_Witness ==
    /\ pc = "drain"
    /\ Len(drained) = 2
    /\ drained[1].cmd.cmd_type = "spawn"
    /\ drained[2].cmd.cmd_type = "land" /\ drained[2].cmd.all
    /\ drained[2].n_enq # num_drones
    /\ DOMAIN drone_modes = Fleet
    /\ \A d \in Fleet : drone_modes[d] = "landing"

\* The edges the state machine lists.
ListedEdges ==
    {<<"idle", "takeoff">>, <<"idle", "goto">>, <<"idle", "velocity">>,
     <<"takeoff", "hover">>,
     <<"hover", "goto">>, <<"hover", "landing">>, <<"hover", "velocity">>,
     <<"goto", "hover">>, <<"goto", "landing">>, <<"goto", "velocity">>,
     <<"landing", "idle">>}
        \cup {<<"velocity", m>> : m \in {"idle", "takeoff", "landing", "hover", "goto"}}

\* C9 as stated: every change of a drone's mode follows a listed edge.
C9_OnlyListedEdges ==
    [][ \A d \in (DOMAIN drone_modes) \cap (DOMAIN drone_modes') :
            drone_modes'[d] # drone_modes[d]
                => <<drone_modes[d], drone_modes'[d]>> \in ListedEdges ]_vars

\* C9 amended: a mode changes only by the control update's two automatic
\* transitions, Takeoff->Hover and Landing->Idle, or by the dispatch of a
\* command, which gives the mode of its kind whatever the mode was.
C9_ModeChangesAutoOrCommanded ==
    [][ \A d \in (DOMAIN drone_modes) \cap (DOMAIN drone_modes') :
            drone_modes'[d] # drone_modes[d]
                => \/ /\ pc = "control"
                      /\ <<drone_modes[d], drone_modes'[d]>>
                            \in {<<"takeoff", "hover">>, <<"landing", "idle">>}
                   \/ /\ Dispatching
                      /\ drone_modes'[d] = ModeOf(Head(command_queue).cmd.cmd_type)
                   \/ /\ pc = "respawn"
                      /\ drone_modes'[d] = "idle" ]_vars

\* A drone that a takeoff command made Takeoff and the control update then made
\* Hover on arrival: its anchor is where it was, not its target.
C9_Witness ==
    \E d \in Fleet :
        /\ drone_modes[d] = "hover"
        /\ d \in DOMAIN hover_positions
        /\ hover_positions[d] # target_positions[d]

\* Steps between two control updates: the least k with k / physics_hz >= 1 / control_hz.
Period == CHOOSE k \in 1..PhysicsHz : k * ControlHz >= PhysicsHz /\ (k - 1) * ControlHz < PhysicsHz

\* C10: a control update makes a Landing drone below 0.15 m Idle and a Takeoff
\* drone within 0.1 m of its target Hover, and a control update runs on every
\* step that begins a control period or more after the last one, so never
\* later than Period steps after it.
C10_ArrivalTransitions ==
    /\ [](sim_time - last_control_time <= Period)
    /\ [][ (pc = "control" /\ steps_done' = steps_done + 1
                /\ (sim_time - last_control_time) * ControlHz >= PhysicsHz)
            => /\ last_control_time' = sim_time
               /\ \A d \in Fleet :
                    /\ (drone_modes[d] = "landing" /\ env_pos[d][3] < LandedBelow)
                            => drone_modes'[d] = "idle"
                    /\ (drone_modes[d] = "takeoff" /\ d \in DOMAIN target_positions
                            /\ Dist2(target_positions[d], env_pos[d]) < ArriveWithin * ArriveWithin)
                            => drone_modes'[d] = "hover" ]_vars

\* The control update of the step just returned made one drone Idle on landing
\* (its target is still the landing target) and another Hover on arrival.
C10_Witness ==
    /\ last_control_time = sim_time - 1
    /\ \E d \in Fleet :
            /\ drone_modes[d] = "idle"
            /\ d \in DOMAIN target_positions
            /\ target_positions[d][3] = LandZ
    /\ \E d \in Fleet :
            /\ drone_modes[d] = "hover"
            /\ target_positions[d][3] = DefaultAltitude
            /\ hover_positions[d][3] # DefaultAltitude

\* C11: whenever a drone's mode becomes Idle (by reset, by spawn or by the
\* automatic Landing-to-Idle transition), the integral and previous error of
\* its four PID axes are zero.
C11_IdleEntryResetsPid ==
    [][ \A d \in (DOMAIN drone_modes) \cap (DOMAIN drone_modes') :
            (drone_modes[d] # "idle" /\ drone_modes'[d] = "idle"
                /\ d \in DOMAIN position_controllers')
                => position_controllers'[d] = PositionController ]_vars

\* C12: when a Takeoff drone becomes Hover at a control update, its hover
\* anchor is the position it had at that control update, not the takeoff target.
C12_HoverAnchorIsArrivedPosition ==
    [][ \A d \in (DOMAIN drone_modes) \cap (DOMAIN drone_modes') :
            (pc = "control" /\ drone_modes[d] = "takeoff" /\ drone_modes'[d] = "hover")
                => /\ d \in DOMAIN hover_positions'
                   /\ hover_positions'[d] = env_pos[d] ]_vars

\* A drone that arrived 4 cm under its takeoff target in the step just
\* returned: it hovers, anchored where it was.
C12_Witness ==
    /\ last_control_time = sim_time - 1
    /\ \E d \in Fleet :
            /\ drone_modes[d] = "hover"
            /\ d \in DOMAIN hover_positions
            /\ target_positions[d][3] = DefaultAltitude
            /\ hover_positions[d][3] = DefaultAltitude - 4

\* C13: a drone in Velocity, Goto, Hover or Idle mode changes mode only when a
\* command that addresses it (or a formation, reset or spawn) is dispatched;
\* no step() changes it.
C13_OnlyTakeoffLandingAutoTransition ==
    [][ \A d \in (DOMAIN drone_modes) \cap (DOMAIN drone_modes') :
            (drone_modes[d] \in {"velocity", "goto", "hover", "idle"}
                /\ drone_modes'[d] # drone_modes[d])
                => \/ Dispatching /\ Addresses(Head(command_queue).cmd, d)
                   \/ pc = "respawn" ]_vars

\* A drone still in Goto or Hover mode on the ground after the control update
\* of the step just returned.
C13_Witness ==
    /\ last_control_time > 0
    /\ last_control_time = sim_time - 1
    /\ pc = "idle"
    /\ \E d \in Fleet :
            /\ drone_modes[d] \in {"goto", "hover"}
            /\ d \in DOMAIN target_positions
            /\ env_pos[d][3] < LandedBelow

\* C14: the action row step() sends to the physics for a drone that is Idle
\* is the zero action, whatever target is still stored for the drone.
C14_IdleActionIsZero ==
    [][ (pc = "control" /\ steps_done' = steps_done + 1)
            => \A d \in 0..(num_drones' - 1) :
                    drone_modes'[d] = "idle" => actions'[d] = << 0, 0, 0, 0 >> ]_vars

\* A drone made Idle by its landing, its landing target still stored and not
\* where the drone is, after a step that sent the zero action for it.
C14_Witness ==
    /\ steps_done > 0
    /\ pc = "idle"
    /\ \E d \in Fleet :
            /\ drone_modes[d] = "idle"
            /\ d \in DOMAIN target_positions
            /\ target_positions[d] # env_pos[d]
            /\ d \in DOMAIN actions
            /\ actions[d] = << 0, 0, 0, 0 >>

\* No target position, yaw, velocity, yaw rate or hover anchor is stored.
NoTargets ==
    /\ target_positions = EmptyDict
    /\ target_yaws = EmptyDict
    /\ target_velocities = EmptyDict
    /\ target_yaw_rates = EmptyDict
    /\ hover_positions = EmptyDict

\* Exactly the drones 0..num_drones-1 exist, each Idle, battery 100, healthy,
\* with a controller in its initial state, and nothing is stored for them.
FreshFleet ==
    /\ DOMAIN drone_modes = Fleet
    /\ DOMAIN batteries = Fleet
    /\ DOMAIN health_status = Fleet
    /\ DOMAIN position_controllers = Fleet
    /\ DOMAIN env_pos = Fleet
    /\ \A d \in Fleet :
            /\ drone_modes[d] = "idle"
            /\ batteries[d] = BatteryFull
            /\ health_status[d]
            /\ position_controllers[d] = PositionController
    /\ NoTargets

\* C15: after construction, and after a spawn(num) command whatever came
\* before it, there are exactly num drones 0..num-1, each Idle, battery 100,
\* healthy, with a fresh controller and no target or anchor left over.
C15_SpawnRebuildsFleet ==
    /\ [](steps_begun = 0 => FreshFleet)
    /\ [][ (pc = "respawn" /\ pc' = "drain")
            => /\ num_drones' = drained[Len(drained)].cmd.params.num
               /\ FreshFleet' ]_vars

\* spawn(MaxDrones) applied in the same drain after a takeoff(all) of a fleet
\* of another size that had given every drone a target.
C15_Witness ==
    /\ pc = "drain"
    /\ Len(drained) = 2
    /\ drained[1].cmd.cmd_type = "takeoff" /\ drained[1].cmd.all
    /\ drained[2].cmd.cmd_type = "spawn"
    /\ drained[2].cmd.params.num = MaxDrones
    /\ drained[2].n_enq # MaxDrones
    /\ num_drones = MaxDrones
    /\ FreshFleet

\* C16: the dispatch of a reset leaves the drone count unchanged, every drone
\* Idle with battery 100, healthy and with zeroed controller state, no target
\* or anchor stored, and the three clocks at 0.
C16_ResetInPlace ==
    [][ (Dispatching /\ Head(command_queue).cmd.cmd_type = "reset")
            => /\ pc' = "drain"
               /\ num_drones' = num_drones
               /\ \A d \in Fleet :
                    /\ drone_modes'[d] = "idle"
                    /\ batteries'[d] = BatteryFull
                    /\ health_status'[d]
                    /\ position_controllers'[d] = PositionController
               /\ NoTargets'
               /\ sim_time' = 0 /\ last_control_time' = 0 /\ step_count' = 0 ]_vars

\* A reset applied, after a step had run, right behind a takeoff(all) in the
\* same drain.
C16_Witness ==
    /\ pc = "drain"
    /\ steps_done > 0
    /\ Len(drained) = 2
    /\ drained[1].cmd.cmd_type = "takeoff" /\ drained[1].cmd.all
    /\ drained[2].cmd.cmd_type = "reset"
    /\ sim_time = 0
    /\ NoTargets
    /\ \A d \in Fleet : drone_modes[d] = "idle"

\* step() is running its part after the drain and returns.
StepReturns == pc = "control" /\ steps_done' = steps_done + 1

\* C17: after every step(), a drone's healthy flag is false exactly when
\* |x| > 15 m or |y| > 15 m or z < 0 or z > 10 m or battery <= 0 holds for its
\* position and battery; nothing latches, so a drone back in bounds with
\* battery left is healthy again after that step.
C17_HealthIsExactNoLatch ==
    (steps_done > 0 /\ pc \in {"idle", "stopped"}) =>
        \A d \in Fleet :
            health_status[d] <=>
                ~ \/ env_pos[d][1] > HealthXY \/ env_pos[d][1] < -HealthXY
                  \/ env_pos[d][2] > HealthXY \/ env_pos[d][2] < -HealthXY
                  \/ env_pos[d][3] < 0 \/ env_pos[d][3] > HealthZMax
                  \/ batteries[d] <= 0

\* A drone that was unhealthy when the step just returned began its health
\* check, and is healthy after it.
C17_Witness ==
    /\ steps_done > 0
    /\ pc = "idle"
    /\ \E d \in Fleet :
            /\ d \in DOMAIN prev_health
            /\ ~prev_health[d]
            /\ health_status[d]
            /\ batteries[d] < BatteryFull

\* C18: the battery drain is applied by exactly the steps that bring
\* step_count to a multiple of physics_hz: each drone not Idle at that moment
\* loses drain_rate / 60 percent, floored at 0, an Idle drone loses nothing,
\* and no other step changes a battery; 120 such drains take 100 to 99.
C18_DrainOncePerSecond ==
    /\ [][ StepReturns
            => /\ step_count' = step_count + 1
               /\ \A d \in Fleet :
                    batteries'[d] =
                        IF step_count' % PhysicsHz = 0 /\ drone_modes'[d] # "idle"
                        THEN (IF batteries[d] > DrainPerSecond
                              THEN batteries[d] - DrainPerSecond ELSE 0)
                        ELSE batteries[d] ]_vars
    /\ [](100 * (BatteryFull - 120 * DrainPerSecond) = 99 * BatteryFull)

\* The step that ended a simulated second took the last unit from the drone in
\* Velocity mode and nothing from the Idle drone beside it.
C18_Witness ==
    /\ steps_done > 0
    /\ step_count = (BatteryFull \div DrainPerSecond) * PhysicsHz
    /\ num_drones = MaxDrones
    /\ drone_modes[0] = "velocity" /\ batteries[0] = 0
    /\ drone_modes[1] = "idle" /\ batteries[1] = BatteryFull

\* C19: every battery is within [0, 100], and a battery rises only when a
\* reset or a spawn sets it to 100.
C19_BatteryInRangeNeverRises ==
    /\ [](\A d \in DOMAIN batteries : batteries[d] >= 0 /\ batteries[d] <= BatteryFull)
    /\ [][ \A d \in (DOMAIN batteries) \cap (DOMAIN batteries') :
                batteries'[d] > batteries[d]
                    => /\ batteries'[d] = BatteryFull
                       /\ \/ Dispatching /\ Head(command_queue).cmd.cmd_type = "reset"
                          \/ pc = "respawn" /\ pc' = "drain" ]_vars

\* An empty battery after a drain was due for its drone, which is not Idle.
C19_Witness ==
    /\ steps_done > 0
    /\ step_count > (BatteryFull \div DrainPerSecond) * PhysicsHz
    /\ step_count % PhysicsHz = 0
    /\ drone_modes[0] = "velocity"
    /\ batteries[0] = 0

\* C20: the health check changes only the healthy flags: what step() leaves
\* in the modes, targets, velocity commands, batteries and controllers is what
\* it had computed before the check; and a drone already unhealthy that is in
\* Velocity mode keeps its mode and is sent the action of its velocity command.
C20_HealthCheckOnlySetsFlag ==
    [][ StepReturns
            => /\ \A w \in {StepBeforeHealth(Self, env_pos')} :
                      /\ drone_modes' = w.drone_modes
                      /\ target_positions' = w.target_positions
                      /\ target_yaws' = w.target_yaws
                      /\ target_velocities' = w.target_velocities
                      /\ target_yaw_rates' = w.target_yaw_rates
                      /\ hover_positions' = w.hover_positions
                      /\ batteries' = w.batteries
                      /\ position_controllers' = w.position_controllers
                      /\ actions' = w.actions
               /\ \A d \in Fleet :
                    (~health_status[d] /\ drone_modes[d] = "velocity")
                        => /\ drone_modes'[d] = "velocity"
                           /\ target_velocities'[d] = target_velocities[d]
                           /\ actions'[d] = VelocityAction(target_velocities[d]) ]_vars

\* A drone in Velocity mode, unhealthy with an empty battery before and after
\* the step just returned, for which that step sent a moving action.
C20_Witness ==
    /\ steps_done > 0
    /\ pc = "idle"
    /\ \E d \in Fleet :
            /\ d \in DOMAIN prev_health
            /\ ~prev_health[d] /\ ~health_status[d]
            /\ batteries[d] = 0
            /\ drone_modes[d] = "velocity"
            /\ actions[d][4] > 0

\* The bounds clamp_position keeps a target within.
InFlightBounds(pos) ==
    /\ pos[1] >= -BoundXY /\ pos[1] <= BoundXY
    /\ pos[2] >= -BoundXY /\ pos[2] <= BoundXY
    /\ pos[3] >= BoundZMin /\ pos[3] <= BoundZMax

\* C21: every target position a takeoff, goto or formation command stores (for
\* a drone it addresses, or any entry it writes) has x and y within the
\* horizontal bound and z between the least and the greatest altitude; the goto
\* of Commands, x = 100 m, stores x = 10 m for drone 0.
C21_StoredTargetsWithinBounds ==
    [][ (Dispatching /\ Head(command_queue).cmd.cmd_type \in {"takeoff", "goto", "formation"})
            => LET cmd == Head(command_queue).cmd
               IN  /\ \A d \in DOMAIN target_positions' :
                        ( \/ (Addresses(cmd, d) /\ (cmd.all => d \in Fleet))
                          \/ d \notin DOMAIN target_positions
                          \/ target_positions'[d] # target_positions[d] )
                            => InFlightBounds(target_positions'[d])
                   /\ cmd = Commands[6] => target_positions'[0] = << BoundXY, 0, 100 >> ]_vars

\* One drain applied a takeoff to 6 m while drone 1 was beyond the bounds, then
\* the goto to x = 100 m for drone 0.
C21_Witness ==
    /\ pc = "control"
    /\ num_drones = 2
    /\ Len(drained) = 2
    /\ drained[1].cmd.cmd_type = "takeoff" /\ drained[1].cmd.params.altitude > BoundZMax
    /\ drained[2].cmd = Commands[6]
    /\ env_pos[1][1] > BoundXY /\ env_pos[1][2] < -BoundXY
    /\ target_positions[1] = << BoundXY, -BoundXY, BoundZMax >>
    /\ drone_modes[1] = "takeoff"
    /\ target_positions[0] = << BoundXY, 0, 100 >>
    /\ drone_modes[0] = "goto"

\* The formation command DrainCommand is taking names a known pattern and is
\* well formed.
KnownFormation(cmd) ==
    /\ cmd.cmd_type = "formation"
    /\ {"pattern", "center"} \subseteq DOMAIN cmd.params
    /\ cmd.params.pattern \in KnownPatterns
    /\ cmd.params.pattern = "line" => LineAxisOk(Get(cmd.params, "axis", "x"))

\* C22: dispatching a formation command with a known pattern plans as many
\* positions as the fleet has drones at that moment and gives drone i the
\* clamped position i, mode Goto and target yaw 0, for every drone of the
\* fleet, whatever its mode was; the line of spacing 4 m about x = 9 m, z = 6 m
\* puts two drones at (7, 0, 5) and (10, 0, 5) metres.
C22_FormationAssignsEveryDrone ==
    [][ (Dispatching /\ KnownFormation(Head(command_queue).cmd))
            => LET p == Head(command_queue).cmd.params
                   positions == FormationPositions(p.pattern, p.center, num_drones,
                                    Get(p, "spacing", 100), Get(p, "radius", 150),
                                    Get(p, "axis", "x"))
               IN  /\ pc' = "drain"
                   /\ num_drones' = num_drones
                   /\ Len(positions) = num_drones
                   /\ \A i \in Fleet :
                        /\ target_positions'[i] = clamp_position(positions[i + 1])
                        /\ drone_modes'[i] = "goto"
                        /\ target_yaws'[i] = 0
                   /\ (p.pattern = "line" /\ p.center = << 900, 0, 600 >> /\ num_drones = 2)
                        => /\ target_positions'[0] = << 700, 0, BoundZMax >>
                           /\ target_positions'[1] = << BoundXY, 0, BoundZMax >> ]_vars

\* A takeoff of all and then the line formation were dispatched in one drain
\* to two drones, which are both in Goto with the line's clamped places.
C22_Witness ==
    /\ pc = "control"
    /\ num_drones = 2
    /\ Len(drained) = 2
    /\ drained[1].cmd.cmd_type = "takeoff" /\ drained[1].cmd.all
    /\ drained[2].cmd.cmd_type = "formation" /\ drained[2].cmd.params.pattern = "line"
    /\ \A i \in Fleet : drone_modes[i] = "goto" /\ target_yaws[i] = 0
    /\ target_positions[0] = << 700, 0, BoundZMax >>
    /\ target_positions[1] = << BoundXY, 0, BoundZMax >>

\* C23: a formation command with an unknown pattern is dropped: its dispatch
\* changes no drone's mode, target position or target yaw, and the drain goes
\* on to the commands queued after it.
C23_UnknownPatternDropped ==
    [][ (Dispatching /\ Head(command_queue).cmd.cmd_type = "formation"
            /\ {"pattern", "center"} \subseteq DOMAIN Head(command_queue).cmd.params
            /\ Head(command_queue).cmd.params.pattern \notin KnownPatterns)
            => /\ UNCHANGED << drone_modes, target_positions, target_yaws >>
               /\ pc' = "drain" ]_vars

\* One drain dispatched the formation with the unknown pattern and then a
\* takeoff of all, which was applied to every drone.
C23_Witness ==
    /\ pc = "control"
    /\ Len(drained) = 2
    /\ drained[1].cmd.cmd_type = "formation"
    /\ drained[1].cmd.params.pattern \notin KnownPatterns
    /\ drained[2].cmd.cmd_type = "takeoff" /\ drained[2].cmd.all
    /\ \A i \in Fleet : drone_modes[i] = "takeoff" /\ i \in DOMAIN target_positions

\* Whether the stored velocity s points the way of the commanded velocity v:
\* no component has changed sign, and the components keep their proportions
\* up to the rounding of s to whole units.
SameDirection(s, v) ==
    \A j, k \in 1..3 :
        /\ s[j] * v[j] >= 0
        /\ Abs(s[j]) <= Abs(v[j])
        /\ Abs(s[j] * v[k] - s[k] * v[j]) <= Abs(v[j]) + Abs(v[k])

\* A step of the program from which drone d's stored velocity command stands:
\* any step but the dispatch of a command addressing d and the end of a spawn.
KeepsCommand(d) ==
    /\ ~(Dispatching /\ Addresses(Head(command_queue).cmd, d))
    /\ pc # "respawn"

\* C24: dispatching velocity(id, vx, vy, vz, yaw_rate) stores for the drone a
\* velocity of magnitude at most the speed limit that points the way of the
\* commanded one (the commanded one itself when it is within the limit), a
\* yaw rate within -pi..pi, and mode Velocity; from then on, until a command
\* addressing the drone is dispatched, the stored velocity and the mode stand
\* and each step's action for the drone is the one derived from that velocity.
C24_VelocityStoredAndHeld ==
    /\ [][ (Dispatching /\ Head(command_queue).cmd.cmd_type = "velocity")
            => LET p == Head(command_queue).cmd.params
                   v == << p.vx, p.vy, p.vz >>
                   s == target_velocities'[p.id]
               IN  /\ Dist2(s, Zero3) <= MaxVel * MaxVel
                   /\ SameDirection(s, v)
                   /\ Dist2(v, Zero3) <= MaxVel * MaxVel => s = v
                   /\ Dist2(v, Zero3) > MaxVel * MaxVel
                        => Dist2(s, Zero3) > (MaxVel - 2) * (MaxVel - 2)
                   /\ target_yaw_rates'[p.id] >= -Pi /\ target_yaw_rates'[p.id] <= Pi
                   /\ (Get(p, "yaw_rate", 0) >= -Pi /\ Get(p, "yaw_rate", 0) <= Pi)
                        => target_yaw_rates'[p.id] = Get(p, "yaw_rate", 0)
                   /\ drone_modes'[p.id] = "velocity"
                   /\ pc' = "drain" ]_vars
    /\ [][ \A d \in Fleet :
            (drone_modes[d] = "velocity" /\ KeepsCommand(d))
                => /\ drone_modes'[d] = "velocity"
                   /\ target_velocities'[d] = target_velocities[d]
                   /\ target_yaw_rates'[d] = target_yaw_rates[d]
                   /\ StepReturns => actions'[d] = VelocityAction(target_velocities[d]) ]_vars

\* The velocity (3, 4, 0) m/s with yaw rate 4 rad/s was dispatched for drone 0
\* in an earlier step; after the third step the drone still holds (1.2, 1.6, 0) m/s
\* and pi rad/s, and the latest action is that direction at full speed.
C24_Witness ==
    /\ pc = "idle"
    /\ steps_done = 3
    /\ disp_count = 1
    /\ drained = <<>>
    /\ drone_modes[0] = "velocity"
    /\ target_velocities[0] = << 120, 160, 0 >>
    /\ target_yaw_rates[0] = Pi
    /\ actions[0] = << 600, 800, 0, 1000 >>

\* DrainCommand is taking a takeoff, land or hover whose ids are all drones of
\* the fleet.
DispatchingFor(cmd_type) ==
    /\ Dispatching
    /\ Head(command_queue).cmd.cmd_type = cmd_type
    /\ \A id \in Elements(ResolveIds(Head(command_queue), num_drones)) : id \in Fleet

\* The drones the command at the head of the queue addresses.
HeadIds == Elements(ResolveIds(Head(command_queue), num_drones))

DroneState ==
    << drone_modes, target_positions, target_yaws, target_velocities, target_yaw_rates,
       hover_positions, batteries, health_status, position_controllers, sim_time,
       last_control_time, step_count, num_drones >>

\* C26: a step of enqueue_command (the count of enqueued commands grows) or
\* of get_state (the reader moves) leaves the drone state, the environment and
\* the control thread as they were; the drone state changes only in steps of
\* the control thread inside step(), which are steps of neither call.
C26_ProducersChangeNoDroneState ==
    /\ [][ (enq_count' # enq_count \/ reader' # reader)
            => UNCHANGED << DroneState, env_pos, actions, pc, respawn_num >> ]_vars
    /\ [][ DroneState' # DroneState
            => /\ pc \in {"drain", "respawn", "control"}
               /\ UNCHANGED << enq_count, prod_enq, reader >> ]_vars

\* Before any step, two commands were enqueued and a get_state call returned:
\* the world is as constructed.
C26_Witness ==
    /\ steps_begun = 0
    /\ enq_count = 2
    /\ Len(command_queue) = 2
    /\ gs_pc = "done"
    /\ Len(gs_states) = num_drones
    /\ sim_time = 0
    /\ target_positions = EmptyDict
    /\ \A d \in Fleet : drone_modes[d] = "idle" /\ batteries[d] = BatteryFull
    /\ env_pos = InitialXYZ(num_drones)

\* The snapshot the reader holds, as it reads now.
HeldSnapshot == SnapshotRead(gs_states, env_pos, batteries, health_status)

TerminalFor(report, d) ==
    CASE report.kind = "scalar" -> report.terminated \/ report.truncated
      [] report.kind = "dict" ->
            Get(report.terminated, d, FALSE) \/ Get(report.truncated, d, FALSE)
      [] OTHER -> Get(report.terminated, d, FALSE)

\* Whether the report has no terminal condition at all.
NothingTerminal(report) ==
    CASE report.kind = "scalar" -> ~report.terminated /\ ~report.truncated
      [] report.kind = "dict" ->
            /\ \A k \in DOMAIN report.terminated : ~report.terminated[k]
            /\ \A k \in DOMAIN report.truncated : ~report.truncated[k]
      [] OTHER -> \A k \in DOMAIN report.terminated : ~report.terminated[k]

\* C28: step() returns False (the loop stops) only if env.step reported a
\* terminal condition for every drone of the fleet; when it reported a drone
\* as not terminal, or nothing terminal at all, step() returns True, whatever
\* the number of drones.
C28_StopsOnlyWhenAllTerminal ==
    [][ StepReturns =>
            /\ pc' = "stopped" => \A d \in Fleet : TerminalFor(step_report', d)
            /\ ( \/ \E d \in Fleet : ~TerminalFor(step_report', d)
                 \/ NothingTerminal(step_report') ) => pc' = "idle" ]_vars

\* The same statement for a fleet of at least one drone, which is where the
\* code keeps it.
MannedFleetStopsOnlyWhenAllTerminal ==
    [][ (StepReturns /\ num_drones > 0) =>
            /\ pc' = "stopped" => \A d \in Fleet : TerminalFor(step_report', d)
            /\ ( \/ \E d \in Fleet : ~TerminalFor(step_report', d)
                 \/ NothingTerminal(step_report') ) => pc' = "idle" ]_vars

\* C29: in a step() whose control update is not due, the position controller
\* of a drone in Takeoff, Landing, Goto or Hover is not invoked: its integral
\* and previous error are after the step what they were before it.
C29_ControllerRunsOnlyAtControlUpdate ==
    [][ (StepReturns /\ ~ControlDue(sim_time, last_control_time))
            => \A d \in Fleet :
                drone_modes[d] \in PositionModes
                    => position_controllers'[d] = position_controllers[d] ]_vars

\* C30: a step() runs the control update (and sets last_control_time to the
\* time of the step) exactly when the simulated time since the last update is
\* at least control_dt, once; no other step moves last_control_time, but a
\* reset or spawn that zeroes both clocks. So updates fall on the steps whose
\* sim_time is a multiple of the control period, one in every Period steps,
\* also after a reset or spawn. With 240 Hz physics and 60 Hz control the
\* update is due exactly from four elapsed steps on.
C30_ControlUpdateExactlyWhenDue ==
    /\ [][ StepReturns =>
            /\ (sim_time - last_control_time) * ControlHz >= PhysicsHz
                    => last_control_time' = sim_time
            /\ (sim_time - last_control_time) * ControlHz < PhysicsHz
                    => last_control_time' = last_control_time
            /\ sim_time' = sim_time + 1 ]_vars
    /\ [][ ~StepReturns =>
            \/ UNCHANGED << sim_time, last_control_time >>
            \/ (pc \in {"drain", "respawn"} /\ sim_time' = 0 /\ last_control_time' = 0) ]_vars
    /\ [](/\ last_control_time % Period = 0
          /\ sim_time >= last_control_time
          /\ sim_time - last_control_time <= Period)
    /\ [](\A e \in 0..12 :
            /\ ControlDueHz(e, 240, 60) <=> e >= 4
            /\ ControlDueHz(e, PhysicsHz, ControlHz) <=> ControlDue(e, 0))

\* After a reset or spawn zeroed the clocks of the worn world, the step()
\* that found one control period elapsed has run the control update.
C30_Witness ==
    /\ pc = "idle"
    /\ disp_count >= 1
    /\ last_control_time = Period
    /\ sim_time = Period + 1
    /\ step_count = Period + 1

\* C31: outside a respawn in progress, the mode, battery, health and
\* controller maps have exactly the keys 0..N-1, every stored target,
\* velocity or hover-anchor entry has a key in 0..N-1, and a returned
\* get_state() lists the drones 0..N-1 in order.
C31_PerDroneKeysAreTheFleet ==
    /\ pc # "respawn" =>
            /\ DOMAIN drone_modes = Fleet
            /\ DOMAIN batteries = Fleet
            /\ DOMAIN health_status = Fleet
            /\ DOMAIN position_controllers = Fleet
            /\ DOMAIN target_positions \subseteq Fleet
            /\ DOMAIN target_yaws \subseteq Fleet
            /\ DOMAIN target_velocities \subseteq Fleet
            /\ DOMAIN target_yaw_rates \subseteq Fleet
            /\ DOMAIN hover_positions \subseteq Fleet
    /\ gs_pc = "done" =>
            /\ Len(gs_states) = gs_n
            /\ \A i \in 1..Len(gs_states) : gs_states[i].id = i - 1

\* The speed fraction f (thousandths) is min(speed / 2.0, 1.0) for a squared
\* speed s2 (cm/s squared), to the model's resolution of 1 cm/s.
IsSpeedFraction(f, s2) ==
    /\ f \in 0..1000
    /\ IF s2 >= SpeedScale * SpeedScale THEN f = 1000
       ELSE f * f <= 25 * s2 /\ 25 * s2 < (f + 5) * (f + 5)

\* The velocity the action of drone d was computed from in the step that is
\* returning: the controller's output or the stored velocity command.
Commanded(d) == Get(target_velocities', d, Zero3)

\* C32 as stated: the action of every drone is all zero when its commanded
\* speed is below 0.01 m/s, and otherwise has the speed fraction
\* min(|v| / 2.0, 1) in [0, 1].
C32_FractionUnlessBelowDeadband ==
    [][ StepReturns =>
            \A d \in DOMAIN actions' :
                IF Dist2(Commanded(d), Zero3) < SpeedDeadband * SpeedDeadband
                THEN actions'[d] = << 0, 0, 0, 0 >>
                ELSE IsSpeedFraction(actions'[d][4], Dist2(Commanded(d), Zero3)) ]_vars

\* C32 (amended): the action of every drone is all zero when its commanded
\* speed is at most 0.01 m/s, and otherwise has the speed fraction
\* min(|v| / 2.0, 1) in [0, 1], so a direction is only computed with a norm
\* above 0.01.
C32_FractionUnlessWithinDeadband ==
    [][ StepReturns =>
            /\ DOMAIN actions' = 0..(num_drones - 1)
            /\ \A d \in DOMAIN actions' :
                IF Dist2(Commanded(d), Zero3) <= SpeedDeadband * SpeedDeadband
                THEN actions'[d] = << 0, 0, 0, 0 >>
                ELSE /\ IsSpeedFraction(actions'[d][4], Dist2(Commanded(d), Zero3))
                     /\ actions'[d][4] > 0 ]_vars

\* A step has passed the stepper the zero action for a drone in Velocity mode
\* whose commanded speed is exactly 0.01 m/s.
C32_Witness ==
    /\ steps_done > 0
    /\ pc = "idle"
    /\ \E d \in DOMAIN actions :
        /\ drone_modes[d] = "velocity"
        /\ d \in DOMAIN target_velocities
        /\ Dist2(target_velocities[d], Zero3) = SpeedDeadband * SpeedDeadband
        /\ actions[d] = << 0, 0, 0, 0 >>

\* C34: whenever a drone is in Hover mode, the position its controller tracks
\* (its stored target position) equals its hover anchor, after an explicit
\* hover command and after the automatic Takeoff-to-Hover transition alike.
C34_HoverTracksAnchor ==
    \A d \in Fleet \cap DOMAIN drone_modes :
        drone_modes[d] = "hover" =>
            /\ d \in DOMAIN hover_positions
            /\ d \in DOMAIN target_positions
            /\ target_positions[d] = hover_positions[d]

\* The entry of drone d in a per-drone dict, or its absence.
Entry(dict, d) == IF d \in DOMAIN dict THEN << dict[d] >> ELSE << >>

\* Every id a per-drone dict or a command of the model can name.
AnyId == 0..MaxDrones

\* C35: the dispatch of a takeoff, land, hover, goto or velocity command
\* leaves the mode, targets, velocity command, hover anchor, battery, health
\* and controller state of every drone it does not address as they were, and
\* the drone count with them.
C35_OnlyAddressedDronesChange ==
    [][ (Dispatching
            /\ Head(command_queue).cmd.cmd_type \in {"takeoff", "land", "hover", "goto", "velocity"})
        => /\ num_drones' = num_drones
           /\ \A d \in AnyId :
                ~Addresses(Head(command_queue).cmd, d) =>
                    /\ Entry(drone_modes', d) = Entry(drone_modes, d)
                    /\ Entry(target_positions', d) = Entry(target_positions, d)
                    /\ Entry(target_yaws', d) = Entry(target_yaws, d)
                    /\ Entry(target_velocities', d) = Entry(target_velocities, d)
                    /\ Entry(target_yaw_rates', d) = Entry(target_yaw_rates, d)
                    /\ Entry(hover_positions', d) = Entry(hover_positions, d)
                    /\ Entry(batteries', d) = Entry(batteries, d)
                    /\ Entry(health_status', d) = Entry(health_status, d)
                    /\ Entry(position_controllers', d) = Entry(position_controllers, d) ]_vars

\* The latest drain dispatched a land for drone 1 alone and then a goto for
\* drone 0 alone: drone 1 is still Landing with its landing target, drone 0 is
\* in Goto mode.
C35_Witness ==
    /\ num_drones = 2
    /\ Len(drained) >= 2
    /\ drained[Len(drained) - 1].cmd = Commands[4]
    /\ drained[Len(drained)].cmd = Commands[6]
    /\ drone_modes[1] = "landing" /\ 1 \in DOMAIN target_positions
    /\ drone_modes[0] = "goto" /\ 0 \in DOMAIN target_positions
    /\ target_positions[0] # target_positions[1]

\* The command kinds _execute_command knows.
KnownKinds == {"takeoff", "land", "hover", "goto", "velocity", "formation", "reset", "spawn"}

\* C36: the dispatch of a command whose kind is none of takeoff, land, hover,
\* goto, velocity, formation, reset, spawn takes it off the queue, changes no
\* state of the world and leaves the drain running with the commands queued
\* after it at the head of the queue, so the same drain dispatches them next.
C36_UnknownKindIsSkipped ==
    [][ (Dispatching /\ Head(command_queue).cmd.cmd_type \notin KnownKinds)
        => /\ command_queue' = Tail(command_queue)
           /\ UNCHANGED world
           /\ ~last_raised'
           /\ pc' = "drain" ]_vars

\* A drain dispatched a command of unknown kind and, after it, a takeoff that
\* was already queued behind it when the drain began; the takeoff was applied.
C36_Witness ==
    /\ DrainOver
    /\ Len(drained) = 2
    /\ drained[1].cmd.cmd_type \notin KnownKinds
    /\ drained[2].cmd = Commands[1]
    /\ drained[2].seq <= drain_mark
    /\ \A d \in Fleet : drone_modes[d] = "takeoff"

\* ------------------------------------------------ direct calls: PIDController
\* The update() calls one controller object may receive in a run of the model.
MaxCalls == 3

\* Gains (kp, ki and kd in thousandths): the position gains and the yaw gains
\* of PositionController, a pure proportional controller, an integrator.
PidGains == { << Kp, KiMilli, KdMilli >>, << YawKp, YawKiMilli, YawKdMilli >>,
              << 2, 0, 0 >>, << 0, 1000, 0 >> }

\* Output limits (min, max) with min <= max: symmetric, a single point, and
\* ranges that do not hold 0.
PidLimits == { << -MaxVel, MaxVel >>, << 0, 0 >>, << 50, 100 >>, << -100, -50 >> }

\* Errors, and time steps in control periods: negative, zero, one, two.
PidErrors == { -300, 0, 7, 100 }

PidDts == { -1, 0, 1, 2 }

\* PIDController(kp, ki, kd, output_limits): the object and nothing called yet.
PidNew(gains, limits) ==
    /\ call = NoCall
    /\ call' = [fn |-> "pid", kp |-> gains[1], ki_milli |-> gains[2], kd_milli |-> gains[3],
                lo |-> limits[1], hi |-> limits[2], pid |-> PIDController,
                before |-> PIDController, error |-> 0, dt |-> 0, output |-> 0, calls |-> 0]
    /\ UNCHANGED << world, command_queue, pc, respawn_num, reader, history >>

\* pid.update(error, dt) on that object: its state before the call, the
\* arguments, its state after the call and the value returned.
PidCall(error, dt) ==
    /\ call.fn = "pid"
    /\ call.calls < MaxCalls
    /\ LET r == update(call.pid, error, dt, call.kp, call.ki_milli, call.kd_milli,
                       call.lo, call.hi)
       IN  call' = [call EXCEPT !.pid = r.pid, !.before = call.pid, !.error = error,
                                !.dt = dt, !.output = r.output, !.calls = @ + 1]
    /\ UNCHANGED << world, command_queue, pc, respawn_num, reader, history >>

NextPid ==
    \/ \E gains \in PidGains, limits \in PidLimits : PidNew(gains, limits)
    \/ \E error \in PidErrors, dt \in PidDts : PidCall(error, dt)

SpecPid == Init /\ [][NextPid]_vars

\* C37: for the gains and the limits min <= max of the controller, every
\* output an update(error, dt) call returns, after any sequence of calls, lies
\* within [min, max].
C37_OutputWithinLimits ==
    (call.fn = "pid" /\ call.calls > 0) =>
        /\ call.lo <= call.hi
        /\ call.lo <= call.output
        /\ call.output <= call.hi

\* After at least two calls the controller with limits (0.5, 1.0), which do
\* not hold 0, returned the lower limit for an error of 0.
C37_Witness ==
    /\ call.fn = "pid"
    /\ call.calls >= 2
    /\ call.lo > 0
    /\ call.error = 0
    /\ call.before.integral2 # 0
    /\ call.output = call.lo

\* A step of PidCall: one update(error, dt) call on the controller.
PidCalled == call.fn = "pid" /\ call'.fn = "pid" /\ call'.calls = call.calls + 1

\* 2000 * control_hz * dt' times the unclamped sum kp * error + ki * integral
\* + kd * derivative of the call just made, for the integral grown by
\* error * dt and the derivative given, and that factor itself (dt' is dt when
\* dt > 0 and 1 otherwise).
SumTimes(derivative_times_dt) ==
    LET e == call'.error
        t == IF call'.dt > 0 THEN call'.dt ELSE 1
        grown == call.pid.integral2 + 2 * e * call'.dt
    IN  t * (2000 * ControlHz * call.kp * e + call.ki_milli * grown)
            + 2 * ControlHz * ControlHz * call.kd_milli * derivative_times_dt

SumFactor == 2000 * ControlHz * (IF call'.dt > 0 THEN call'.dt ELSE 1)

\* C38: in update(error, dt) the integral first grows by error * dt; if the
\* unclamped sum kp * error + ki * integral + kd * derivative lies outside the
\* limits, so that the clamped output differs from it, the integral is then
\* reduced by error * dt / 2, otherwise it keeps the full increment. In both
\* cases previous_error becomes the raw error, and the derivative is
\* (error - previous_error) / dt, or 0 when dt <= 0: the output is that sum,
\* clamped.
C38_IntegralDerivativeAndPrevError ==
    [][ PidCalled =>
        LET e == call'.error
            sum == SumTimes(IF call'.dt > 0 THEN e - call.pid.prev_error ELSE 0)
            differs == sum > call.hi * SumFactor \/ sum < call.lo * SumFactor
        IN  /\ call'.before = call.pid
            /\ call'.pid.integral2 = call.pid.integral2 + 2 * e * call'.dt
                                        - (IF differs THEN e * call'.dt ELSE 0)
            /\ call'.pid.prev_error = e
            /\ IF sum > call.hi * SumFactor THEN call'.output = call.hi
               ELSE IF sum < call.lo * SumFactor THEN call'.output = call.lo
               ELSE /\ call'.output * SumFactor <= sum
                    /\ sum < (call'.output + 1) * SumFactor ]_vars

\* A call with dt > 0 whose output was clamped kept half of error * dt in the
\* integral, after an earlier call had left a previous error other than this
\* call's error.
C38_Witness ==
    /\ call.fn = "pid"
    /\ call.calls >= 2
    /\ call.dt > 0
    /\ call.error # 0
    /\ call.before.prev_error # call.error
    /\ call.pid.integral2 = call.before.integral2 + call.error * call.dt
    /\ call.pid.prev_error = call.error
    /\ call.output = call.hi
    /\ call.lo < call.hi

\* --------------------------------------------- direct calls: FormationPlanner
\* The largest number of drones a direct call of a planner is given.
MaxFormation == 4

\* Centers, spacings (whole centimetres, of either sign and zero, each an even
\* number so that half a spacing is a whole centimetre) and axes.
PlanCenters == { << 0, 0, 150 >>, << -900, 40, 100 >>, << 7, -3, 0 >> }

PlanSpacings == { 100, 50, 0, -100 }

PlanAxes == { "x", "y", "z" }

\* FormationPlanner.line as its caller sees it: the list returned, the
\* caller's center array after the call (each position is a copy of it,
\* center.copy(), so it is never written), and whether ValueError was raised.
line(center, n, spacing, axis) ==
    IF n > 0 /\ ~LineAxisOk(axis)
    THEN [positions |-> << >>, center |-> center, raised |-> TRUE]
    ELSE [positions |-> FormationLine(center, n, spacing, axis), center |-> center,
          raised |-> FALSE]

\* FormationPlanner.grid as its caller sees it.
grid(center, n, spacing) ==
    IF ~GridSizeOk(n)
    THEN [positions |-> << >>, center |-> center, raised |-> TRUE]
    ELSE [positions |-> FormationGrid(center, n, spacing), center |-> center,
          raised |-> FALSE]

LineCall(center, n, spacing, axis) ==
    /\ LET r == line(center, n, spacing, axis)
       IN  call' = [fn |-> "line", center |-> center, n |-> n, spacing |-> spacing,
                    axis |-> axis, positions |-> r.positions, center_after |-> r.center,
                    raised |-> r.raised]
    /\ UNCHANGED << world, command_queue, pc, respawn_num, reader, history >>

GridCall(center, n, spacing) ==
    /\ LET r == grid(center, n, spacing)
       IN  call' = [fn |-> "grid", center |-> center, n |-> n, spacing |-> spacing,
                    axis |-> "none", positions |-> r.positions, center_after |-> r.center,
                    raised |-> r.raised]
    /\ UNCHANGED << world, command_queue, pc, respawn_num, reader, history >>

NextPlanner ==
    \/ \E center \in PlanCenters, n \in 0..MaxFormation, spacing \in PlanSpacings,
          axis \in PlanAxes : LineCall(center, n, spacing, axis)
    \/ \E center \in PlanCenters, n \in 0..MaxFormation, spacing \in PlanSpacings :
          GridCall(center, n, spacing)

SpecPlanner == Init /\ [][NextPlanner]_vars

\* The index of an axis in a position.
AxisIndex(axis) == IF axis = "x" THEN 1 ELSE 2

\* C39: line(center, n, spacing, axis) along x or y returns exactly n
\* positions; position i is center shifted by i * spacing - (n - 1) * spacing / 2
\* along the axis, its other two coordinates those of center; and the caller's
\* center is as it was.
C39_LineCentredOnCenter ==
    (call.fn = "line" /\ call.axis \in {"x", "y"}) =>
        /\ ~call.raised
        /\ Len(call.positions) = call.n
        /\ call.center_after = call.center
        /\ \A i \in 0..(call.n - 1) :
            \A k \in 1..3 :
                2 * (call.positions[i + 1][k] - call.center[k]) =
                    IF k = AxisIndex(call.axis)
                    THEN 2 * i * call.spacing - (call.n - 1) * call.spacing
                    ELSE 0

\* line(center, 3, 1.0, 'x') returned three positions with the x offsets -1, 0
\* and 1 m from a center away from the origin.
C39_Witness ==
    /\ call.fn = "line"
    /\ call.n = 3 /\ call.spacing = 100 /\ call.axis = "x"
    /\ call.center = << -900, 40, 100 >>
    /\ call.positions = << << -1000, 40, 100 >>, << -900, 40, 100 >>, << -800, 40, 100 >> >>
    /\ call.center_after = call.center

\* ceil(sqrt(n)) and ceil(n / cols) as the least whole numbers that are large
\* enough.
LeastSide(n) == CHOOSE c \in 0..n : c * c >= n /\ \A b \in 0..(c - 1) : b * b < n

LeastRows(n, cols) == CHOOSE r \in 0..n : r * cols >= n /\ \A b \in 0..(r - 1) : b * cols < n

\* C40: for n >= 1, grid(center, n, spacing) returns exactly n positions, the
\* one of drone i at column i mod cols and row i div cols for cols =
\* ceil(sqrt(n)) and rows = ceil(n / cols), offset by -(cols - 1) * spacing / 2
\* and -(rows - 1) * spacing / 2 so that the lattice is centred on center, with
\* z that of center; the positions are pairwise distinct when spacing > 0, and
\* the caller's center is as it was.
C40_GridLatticeCentredOnCenter ==
    (call.fn = "grid" /\ call.n >= 1) =>
        LET cols == LeastSide(call.n)
            rows == LeastRows(call.n, cols)
            at(i) == call.positions[i + 1]
        IN  /\ ~call.raised
            /\ Len(call.positions) = call.n
            /\ call.center_after = call.center
            /\ \A i \in 0..(call.n - 1) :
                /\ 2 * (at(i)[1] - call.center[1]) =
                        2 * (i % cols) * call.spacing - (cols - 1) * call.spacing
                /\ 2 * (at(i)[2] - call.center[2]) =
                        2 * (i \div cols) * call.spacing - (rows - 1) * call.spacing
                /\ at(i)[3] = call.center[3]
            /\ call.spacing > 0 =>
                \A i, j \in 0..(call.n - 1) : i # j => at(i) # at(j)

\* grid(center, 3, 0.5) filled a lattice of two columns and two rows but for
\* its last place: three distinct positions around the center.
C40_Witness ==
    /\ call.fn = "grid"
    /\ call.n = 3 /\ call.spacing = 50
    /\ call.center = << 7, -3, 0 >>
    /\ call.positions = << << -18, -28, 0 >>, << 32, -28, 0 >>, << -18, 22, 0 >> >>

\* ------------------------------------------- producers that never stop
\* The queue length up to which the flooding producer keeps putting commands.
FloodDepth == 2

\* What the flooding producer sends: land for all, hover for drone 0, a command
\* of no known kind.
FloodCommands == { Commands[3], Commands[5], Commands[16] }

\* enqueue_command by a producer that calls it again and again, for as long as
\* the program runs; the history counters do not follow it.
FloodEnqueue(cmd) ==
    /\ Len(command_queue) < FloodDepth
    /\ command_queue' = QueuePut(command_queue,
            [cmd |-> cmd, seq |-> 0, prod |-> 1, pseq |-> 0, n_enq |-> num_drones])
    /\ UNCHANGED << call, world, pc, respawn_num, reader, history >>

\* One turn of the loop of _process_commands with a command in the queue, as
\* DrainCommand, the history counters left alone.
FloodDrain ==
    /\ pc = "drain"
    /\ command_queue # <<>>
    /\ LET got == QueueGet(command_queue)
           w   == _execute_command(Self, got.item)
       IN  /\ Store(w)
           /\ command_queue' = got.rest
           /\ pc' = IF w.raised THEN "dead" ELSE "drain"
    /\ UNCHANGED << call, respawn_num, reader, history >>

\* The simulation thread from the call of step() to the end of its drain, and
\* the whole of it: simulation_loop calls step() again and again.
FloodDrainLoop ==
    \/ StepBegin
    \/ FloodDrain
    \/ DrainEmpty

FloodThread ==
    \/ FloodDrainLoop
    \/ StepFinish({env_pos})

NextFlood ==
    \/ \E cmd \in FloodCommands : FloodEnqueue(cmd)
    \/ FloodThread

\* The simulation thread is a thread of its own: whenever it can take the next
\* turn of its drain loop it does, sooner or later. Nothing is assumed of the
\* producer, nor of the physics call the drain is to reach.
SpecFlood == Init /\ [][NextFlood]_vars /\ WF_vars(FloodDrainLoop)

\* C33: the drain of step() never waits for a command: with an empty queue
\* its next turn ends it; and every drain that has begun is over after finitely
\* many commands, so that step() reaches its physics call, even while
\* producers keep enqueuing.
C33_DrainAlwaysEnds ==
    /\ [][ (pc = "drain" /\ command_queue = <<>> /\ command_queue' = <<>> /\ pc' # pc)
            => pc' = "control" ]_vars
    /\ ((pc = "drain") ~> (pc = "control"))

====
